---- MODULE Spec2Model ----
(***************************************************************************)
(* Model of the 706 schedule sorter: term normalisation, the               *)
(* classification engine (classify.ts), output-path assignment and the     *)
(* bounded-concurrency processing pipeline of App.tsx.                     *)
(*                                                                         *)
(* Strings are sequences of one-character strings.  A regular expression   *)
(* of a filename rule is modelled by a literal pattern (a sequence of      *)
(* characters) that is searched for case-insensitively.                    *)
(***************************************************************************)
EXTENDS Integers, Sequences, FiniteSets, TLC

(***************************************************************************)
(* Program constants.                                                      *)
(***************************************************************************)
SCORE_FLOOR == 18
LOW_CONFIDENCE_MARGIN == 6
DefaultMinChars == 250
DefaultMinTextItems == 30
HashPrefixLen == 10

(***************************************************************************)
(* Bounds of the model.                                                    *)
(***************************************************************************)
MaxTextLen == 2
MaxFiles == 3
MaxRuns == 1
MaxFailures == 1

\* JavaScript's undefined and null: one-element sequences whose element is no
\* character, so that they differ from every string.
UNDEF == <<"undefined">>
NULL == <<"null">>

\* The values of an optional boolean field that is set (overrideApplied);
\* UNDEF when the field is absent.
JsTrue == <<"true">>
JsFalse == <<"false">>

(***************************************************************************)
(* Characters and strings.                                                 *)
(***************************************************************************)
UpperSeq == <<"A", "B", "C", "D", "E", "F", "G", "H", "I", "J", "K", "L", "M",
              "N", "O", "P", "Q", "R", "S", "T", "U", "V", "W", "X", "Y", "Z">>
LowerSeq == <<"a", "b", "c", "d", "e", "f", "g", "h", "i", "j", "k", "l", "m",
              "n", "o", "p", "q", "r", "s", "t", "u", "v", "w", "x", "y", "z">>
Digits == {"0", "1", "2", "3", "4", "5", "6", "7", "8", "9"}
Whitespace == {" ", "\n"}

Range(s) == {s[i] : i \in DOMAIN s}

LowerChar(c) ==
    IF \E i \in DOMAIN UpperSeq : UpperSeq[i] = c
    THEN LowerSeq[CHOOSE i \in DOMAIN UpperSeq : UpperSeq[i] = c]
    ELSE c

\* String.prototype.toLowerCase
toLowerCase(s) == [i \in DOMAIN s |-> LowerChar(s[i])]

IsLowerAlnum(c) == c \in Range(LowerSeq) \cup Digits

\* replace(/[^a-z0-9]+/g, ' '): every maximal run of characters outside
\* a-z0-9 becomes one space.
RECURSIVE ReplaceNonAlnumRuns(_, _)
ReplaceNonAlnumRuns(s, inRun) ==
    IF s = <<>> THEN <<>>
    ELSE IF IsLowerAlnum(Head(s))
         THEN <<Head(s)>> \o ReplaceNonAlnumRuns(Tail(s), FALSE)
         ELSE IF inRun
              THEN ReplaceNonAlnumRuns(Tail(s), TRUE)
              ELSE <<" ">> \o ReplaceNonAlnumRuns(Tail(s), TRUE)

\* replace(/\s+/g, ' '): every maximal run of whitespace becomes one space.
RECURSIVE ReplaceSpaceRuns(_, _)
ReplaceSpaceRuns(s, inRun) ==
    IF s = <<>> THEN <<>>
    ELSE IF Head(s) \notin Whitespace
         THEN <<Head(s)>> \o ReplaceSpaceRuns(Tail(s), FALSE)
         ELSE IF inRun
              THEN ReplaceSpaceRuns(Tail(s), TRUE)
              ELSE <<" ">> \o ReplaceSpaceRuns(Tail(s), TRUE)

RECURSIVE TrimStart(_)
TrimStart(s) ==
    IF s = <<>> THEN <<>>
    ELSE IF Head(s) \in Whitespace THEN TrimStart(Tail(s)) ELSE s

RECURSIVE TrimEnd(_)
TrimEnd(s) ==
    IF s = <<>> THEN <<>>
    ELSE IF s[Len(s)] \in Whitespace THEN TrimEnd(SubSeq(s, 1, Len(s) - 1)) ELSE s

\* String.prototype.trim
trim(s) == TrimEnd(TrimStart(s))

normalizeText(value) ==
    trim(ReplaceSpaceRuns(ReplaceNonAlnumRuns(toLowerCase(value), FALSE), FALSE))

\* s.indexOf(t, from) with 1-based positions; 0 stands for -1.
MatchesAt(s, t, i) ==
    /\ i >= 1
    /\ i + Len(t) - 1 <= Len(s)
    /\ \A k \in 1..Len(t) : s[i + k - 1] = t[k]

indexOf(s, t, from) ==
    LET hits == {i \in from..(Len(s) - Len(t) + 1) : MatchesAt(s, t, i)}
    IN  IF hits = {} THEN 0 ELSE CHOOSE i \in hits : \A j \in hits : i <= j

RECURSIVE CountFrom(_, _, _)
CountFrom(s, t, index) ==
    IF index = 0 THEN 0
    ELSE 1 + CountFrom(s, t, indexOf(s, t, index + Len(t)))

countTermOccurrences(text, term) ==
    IF text = <<>> \/ term = <<>> THEN 0
    ELSE LET normalizedText == normalizeText(text)
             normalizedTerm == normalizeText(term)
         IN  IF normalizedTerm = <<>> THEN 0
             ELSE CountFrom(normalizedText, normalizedTerm,
                            indexOf(normalizedText, normalizedTerm, 1))

(***************************************************************************)
(* Schedule configuration (scheduleConfig.ts).                             *)
(*   ScheduleDefinition: [id, keywords, smallTerms], the two lists being   *)
(*   sequences of WeightedTerm [term, weight].                             *)
(*   FilenameRuleConfig: [pattern, schedule]; compiled, the pattern is a   *)
(*   case-insensitive matcher.                                             *)
(***************************************************************************)
\* Mutant: new RegExp(pattern, 'gi'), a matcher that remembers where its
\* last match ended.
RegExpGI(pattern) ==
    [source |-> pattern, ignoreCase |-> TRUE, global |-> TRUE, lastIndex |-> 0]

\* new RegExp(pattern, 'i')
RegExpI(pattern) ==
    [source |-> pattern, ignoreCase |-> TRUE, global |-> FALSE, lastIndex |-> 0]

\* RegExp.prototype.exec as test uses it: the search starts at lastIndex
\* when the g flag is set and at the start of s otherwise; with the g flag
\* lastIndex becomes the end of the match, or 0 when there is none.  The
\* result is [matched, re], re being the matcher after the call.
RegExpExec(re, s) ==
    LET start == IF re.global THEN re.lastIndex ELSE 0
        at == IF start > Len(s) THEN 0
              ELSE IF re.ignoreCase
                   THEN indexOf(toLowerCase(s), toLowerCase(re.source), start + 1)
                   ELSE indexOf(s, re.source, start + 1)
    IN  [matched |-> at # 0,
         re |-> IF ~re.global THEN re
                ELSE [re EXCEPT !.lastIndex =
                               IF at = 0 THEN 0 ELSE at - 1 + Len(re.source)]]

\* RegExp.prototype.test
RegExpTest(re, s) == RegExpExec(re, s).matched

compileScheduleConfig(config) ==
    [schedules |-> config.schedules,
     filenameRules |-> [i \in DOMAIN config.filenameRules |->
                          [pattern |-> RegExpI(config.filenameRules[i].pattern),
                           schedule |-> config.filenameRules[i].schedule]]]

(***************************************************************************)
(* Values parsed from JSON, as validateScheduleConfig receives them        *)
(* (raw: unknown).  A value is a record with its type t and, by type, a    *)
(* number n, a string s, the items a of an array or the properties o of an *)
(* object.  A number too large for a double (1e999) parses to Infinity,    *)
(* type "infinity" here; typeof gives 'number' for both.                   *)
(***************************************************************************)
JValue(t, n, str, a, o) == [t |-> t, n |-> n, s |-> str, a |-> a, o |-> o]

JUndefined == JValue("undefined", 0, <<>>, <<>>, <<>>)
JNull == JValue("null", 0, <<>>, <<>>, <<>>)
JNum(n) == JValue("number", n, <<>>, <<>>, <<>>)
JInfinity == JValue("infinity", 0, <<>>, <<>>, <<>>)
JStr(str) == JValue("string", 0, str, <<>>, <<>>)
JArr(a) == JValue("array", 0, <<>>, a, <<>>)
JObj(o) == JValue("object", 0, <<>>, <<>>, o)

\* value.key for a value that is neither null nor undefined.
Prop(value, key) ==
    IF value.t = "object" /\ key \in DOMAIN value.o THEN value.o[key] ELSE JUndefined

IsNullish(value) == value.t \in {"undefined", "null"}

\* !value
IsFalsy(value) ==
    \/ IsNullish(value)
    \/ value.t = "number" /\ value.n = 0
    \/ value.t = "string" /\ value.s = <<>>

\* typeof value === 'object'
TypeofObject(value) == value.t \in {"object", "array", "null"}

\* typeof value !== 'string' || !value
NotNonEmptyString(value) == value.t # "string" \/ value.s = <<>>

\* typeof value !== 'number' || Number.isNaN(value); JSON holds no NaN.
NotANumber(value) == value.t \notin {"number", "infinity"}

\* new RegExp(pattern, 'i') raises on a pattern with an unclosed group; the
\* patterns of the model hold no closing parenthesis.
ValidRegExp(pattern) == \A i \in DOMAIN pattern : pattern[i] # "("

Err(message, index) == [message |-> message, index |-> index]

\* The errors of one term list, or "throw": (list ?? []).entries() raises
\* a TypeError on a value that is neither nullish nor an array, and
\* keyword.term raises on a nullish entry.
RECURSIVE TermErrors(_, _, _)
TermErrors(terms, termIndex, what) ==
    IF termIndex > Len(terms) THEN [thrown |-> FALSE, errors |-> <<>>]
    ELSE IF IsNullish(terms[termIndex]) THEN [thrown |-> TRUE, errors |-> <<>>]
    ELSE LET keyword == terms[termIndex]
             here == (IF Prop(keyword, "term").t # "string"
                      THEN <<Err(IF what = "keyword" THEN "keyword term must be a string"
                                  ELSE "smallTerm term must be a string",
                                  termIndex - 1)>>
                      ELSE <<>>)
                     \o (IF NotANumber(Prop(keyword, "weight"))
                         THEN <<Err(IF what = "keyword" THEN "keyword weight must be a number"
                                     ELSE "smallTerm weight must be a number",
                                     termIndex - 1)>>
                         ELSE <<>>)
             rest == TermErrors(terms, termIndex + 1, what)
         IN  [thrown |-> rest.thrown, errors |-> here \o rest.errors]

TermListErrors(list, what) ==
    IF IsNullish(list) THEN [thrown |-> FALSE, errors |-> <<>>]
    ELSE IF list.t # "array" THEN [thrown |-> TRUE, errors |-> <<>>]
    ELSE TermErrors(list.a, 1, what)

\* The body of the loop over schedules for one schedule.
ScheduleErrors(schedule, index) ==
    IF IsFalsy(schedule) \/ ~TypeofObject(schedule)
    THEN [thrown |-> FALSE, errors |-> <<Err("Schedule must be an object", index)>>]
    ELSE LET keywords == TermListErrors(Prop(schedule, "keywords"), "keyword")
             smallTerms == TermListErrors(Prop(schedule, "smallTerms"), "smallTerm")
         IN  [thrown |-> keywords.thrown \/ smallTerms.thrown,
              errors |->
                 (IF NotNonEmptyString(Prop(schedule, "id"))
                  THEN <<Err("Schedule is missing a valid id", index)>> ELSE <<>>)
                 \o (IF NotNonEmptyString(Prop(schedule, "label"))
                     THEN <<Err("Schedule is missing a valid label", index)>> ELSE <<>>)
                 \o (IF Prop(schedule, "keywords").t # "array"
                     THEN <<Err("Schedule keywords must be an array", index)>> ELSE <<>>)
                 \o (IF Prop(schedule, "smallTerms").t # "array"
                     THEN <<Err("Schedule smallTerms must be an array", index)>> ELSE <<>>)
                 \o keywords.errors \o smallTerms.errors]

\* The body of the loop over filename rules for one rule.
RuleErrors(rule, index) ==
    IF IsFalsy(rule) \/ ~TypeofObject(rule)
    THEN <<Err("Filename rule must be an object", index)>>
    ELSE (IF NotNonEmptyString(Prop(rule, "pattern"))
          THEN <<Err("Filename rule pattern must be a string", index)>>
          ELSE IF ~ValidRegExp(Prop(rule, "pattern").s)
               THEN <<Err("Filename rule is not a valid regex", index)>>
               ELSE <<>>)
         \o (IF NotNonEmptyString(Prop(rule, "schedule"))
             THEN <<Err("Filename rule schedule must be a string", index)>>
             ELSE <<>>)

RECURSIVE AllScheduleErrors(_, _)
AllScheduleErrors(schedules, index) ==
    IF index > Len(schedules) THEN [thrown |-> FALSE, errors |-> <<>>]
    ELSE LET here == ScheduleErrors(schedules[index], index - 1)
             rest == AllScheduleErrors(schedules, index + 1)
         IN  [thrown |-> here.thrown \/ rest.thrown, errors |-> here.errors \o rest.errors]

RECURSIVE AllRuleErrors(_, _)
AllRuleErrors(filenameRules, index) ==
    IF index > Len(filenameRules) THEN <<>>
    ELSE RuleErrors(filenameRules[index], index - 1)
         \o AllRuleErrors(filenameRules, index + 1)

Validation(hasConfig, config, errors, thrown) ==
    [hasConfig |-> hasConfig, config |-> config, errors |-> errors, thrown |-> thrown]

\* validateScheduleConfig(raw): { config?, errors }, or a TypeError raised
\* (thrown), in which case nothing is returned.
validateScheduleConfig(raw) ==
    IF IsFalsy(raw) \/ ~TypeofObject(raw)
    THEN Validation(FALSE, JUndefined, <<Err("Config must be an object", 0)>>, FALSE)
    ELSE LET schedulesIsArray == Prop(raw, "schedules").t = "array"
             rulesIsArray == Prop(raw, "filenameRules").t = "array"
             schedules == IF schedulesIsArray THEN Prop(raw, "schedules").a ELSE <<>>
             filenameRules == IF rulesIsArray THEN Prop(raw, "filenameRules").a ELSE <<>>
             scheduleErrors == AllScheduleErrors(schedules, 1)
             errors == (IF schedulesIsArray THEN <<>>
                        ELSE <<Err("Config.schedules must be an array", 0)>>)
                       \o (IF rulesIsArray THEN <<>>
                           ELSE <<Err("Config.filenameRules must be an array", 0)>>)
                       \o scheduleErrors.errors
                       \o AllRuleErrors(filenameRules, 1)
         IN  IF scheduleErrors.thrown THEN Validation(FALSE, JUndefined, <<>>, TRUE)
             ELSE IF Len(errors) > 0 THEN Validation(FALSE, JUndefined, errors, FALSE)
             ELSE Validation(TRUE, raw, <<>>, FALSE)

\* The JSON value of a configuration held in the typed form of the model
\* (JSON.parse of its JSON.stringify); the label of a schedule is its id.
TermToJson(term) ==
    JObj([k \in {"term", "weight"} |->
            IF k = "term" THEN JStr(term.term) ELSE JNum(term.weight)])

ScheduleToJson(schedule) ==
    JObj([k \in {"id", "label", "keywords", "smallTerms"} |->
            CASE k = "id" -> JStr(schedule.id)
              [] k = "label" -> JStr(schedule.id)
              [] k = "keywords" ->
                    JArr([i \in DOMAIN schedule.keywords |-> TermToJson(schedule.keywords[i])])
              [] k = "smallTerms" ->
                    JArr([i \in DOMAIN schedule.smallTerms |->
                            TermToJson(schedule.smallTerms[i])])])

RuleToJson(rule) ==
    JObj([k \in {"pattern", "schedule"} |->
            IF k = "pattern" THEN JStr(rule.pattern) ELSE JStr(rule.schedule)])

ConfigToJson(config) ==
    JObj([k \in {"schedules", "filenameRules"} |->
            IF k = "schedules"
            THEN JArr([i \in DOMAIN config.schedules |-> ScheduleToJson(config.schedules[i])])
            ELSE JArr([i \in DOMAIN config.filenameRules |->
                         RuleToJson(config.filenameRules[i])])])

\* The fields compileScheduleConfig and the review table read from the
\* configuration in force, a value validateScheduleConfig accepted whose
\* schedules carry both lists of terms: id, keywords and smallTerms of each
\* schedule, pattern and schedule of each filename rule.
TermOf(value) == [term |-> Prop(value, "term").s, weight |-> Prop(value, "weight").n]

ScheduleOf(value) ==
    [id |-> Prop(value, "id").s,
     keywords |-> [i \in DOMAIN Prop(value, "keywords").a |->
                     TermOf(Prop(value, "keywords").a[i])],
     smallTerms |-> [i \in DOMAIN Prop(value, "smallTerms").a |->
                       TermOf(Prop(value, "smallTerms").a[i])]]

RuleOf(value) ==
    [pattern |-> Prop(value, "pattern").s, schedule |-> Prop(value, "schedule").s]

ScheduleConfigOf(value) ==
    [schedules |-> [i \in DOMAIN Prop(value, "schedules").a |->
                      ScheduleOf(Prop(value, "schedules").a[i])],
     filenameRules |-> [i \in DOMAIN Prop(value, "filenameRules").a |->
                          RuleOf(Prop(value, "filenameRules").a[i])]]

(***************************************************************************)
(* JavaScript objects keyed by strings: a sequence of <<key, value>>       *)
(* entries in the order of the own property keys (what Object.entries      *)
(* lists); assigning an existing key keeps its place.                      *)
(***************************************************************************)
ObjKeys(obj) == {obj[i][1] : i \in DOMAIN obj}
ObjHas(obj, k) == k \in ObjKeys(obj)
ObjGet(obj, k) == obj[CHOOSE i \in DOMAIN obj : obj[i][1] = k][2]

\* The order of two canonical decimal strings as numbers.
RECURSIVE DigitsLess(_, _)
DigitsLess(a, b) ==
    IF Len(a) # Len(b) THEN Len(a) < Len(b)
    ELSE IF a = <<>> THEN FALSE
    ELSE IF Head(a) = Head(b) THEN DigitsLess(Tail(a), Tail(b))
    ELSE \E i \in 1..10 : \E j \in 1..10 :
            /\ i < j
            /\ <<"0", "1", "2", "3", "4", "5", "6", "7", "8", "9">>[i] = Head(a)
            /\ <<"0", "1", "2", "3", "4", "5", "6", "7", "8", "9">>[j] = Head(b)

\* A property key that is an array index: the canonical decimal string of an
\* integer from 0 to 2^32 - 2.
IsArrayIndex(k) ==
    /\ k # <<>>
    /\ \A i \in DOMAIN k : k[i] \in Digits
    /\ Len(k) = 1 \/ k[1] # "0"
    /\ DigitsLess(k, <<"4", "2", "9", "4", "9", "6", "7", "2", "9", "5">>)

\* Where a new key goes in the order of the own property keys: the array
\* indices first, in ascending numeric order, then the other strings in the
\* order of their creation.
RECURSIVE InsertKey(_, _, _)
InsertKey(obj, k, v) ==
    IF obj = <<>> THEN <<<<k, v>>>>
    ELSE IF IsArrayIndex(k)
            /\ (~IsArrayIndex(Head(obj)[1]) \/ DigitsLess(k, Head(obj)[1]))
         THEN <<<<k, v>>>> \o obj
         ELSE <<Head(obj)>> \o InsertKey(Tail(obj), k, v)

\* obj[k] = v
ObjSet(obj, k, v) ==
    IF ObjHas(obj, k)
    THEN [i \in DOMAIN obj |-> IF obj[i][1] = k THEN <<k, v>> ELSE obj[i]]
    ELSE InsertKey(obj, k, v)

\* Array.prototype.sort((a, b) => b[1] - a[1]): stable, descending by value.
RECURSIVE InsertDesc(_, _)
InsertDesc(sorted, e) ==
    IF sorted = <<>> THEN <<e>>
    ELSE IF Head(sorted)[2] >= e[2]
         THEN <<Head(sorted)>> \o InsertDesc(Tail(sorted), e)
         ELSE <<e>> \o sorted

RECURSIVE SortDesc(_)
SortDesc(entries) ==
    IF entries = <<>> THEN <<>>
    ELSE InsertDesc(SortDesc(SubSeq(entries, 1, Len(entries) - 1)),
                    entries[Len(entries)])

(***************************************************************************)
(* Classification engine (classify.ts).                                    *)
(***************************************************************************)
\* Mutant: the last matching rule wins.
applyFilenameRulesLastMatch(filename, config) ==
    LET hits == {i \in DOMAIN config.filenameRules :
                   RegExpTest(config.filenameRules[i].pattern, filename)}
    IN  IF hits = {} THEN NULL
        ELSE config.filenameRules[CHOOSE i \in hits : \A j \in hits : i >= j].schedule

applyFilenameRules(filename, config) ==
    LET hits == {i \in DOMAIN config.filenameRules :
                   RegExpTest(config.filenameRules[i].pattern, filename)}
    IN  IF hits = {} THEN NULL
        ELSE config.filenameRules[CHOOSE i \in hits : \A j \in hits : i <= j].schedule

\* The rules of the compiled configuration after applyFilenameRules: the
\* loop calls test on each matcher up to and including the first that
\* matches, and the matchers are objects of the configuration.
RECURSIVE RulesAfterTests(_, _)
RulesAfterTests(filename, rules) ==
    IF rules = <<>> THEN <<>>
    ELSE LET tested == RegExpExec(Head(rules).pattern, filename)
             rule == [Head(rules) EXCEPT !.pattern = tested.re]
         IN  IF tested.matched THEN <<rule>> \o Tail(rules)
             ELSE <<rule>> \o RulesAfterTests(filename, Tail(rules))

RECURSIVE SumTerms(_, _)
SumTerms(text, terms) ==
    IF terms = <<>> THEN 0
    ELSE countTermOccurrences(text, Head(terms).term) * Head(terms).weight
         + SumTerms(text, Tail(terms))

scoreSchedule(text, schedule) ==
    SumTerms(text, schedule.keywords) + SumTerms(text, schedule.smallTerms)

\* for (const schedule of schedules) scores[schedule.id] = values[schedule],
\* values being the sequence of the values assigned, in schedule order.
RECURSIVE FillScores(_, _, _)
FillScores(scores, schedules, values) ==
    IF schedules = <<>> THEN scores
    ELSE FillScores(ObjSet(scores, Head(schedules).id, Head(values)),
                    Tail(schedules), Tail(values))

Unknown == <<"U", "n", "k", "n", "o", "w", "n">>

Reason(code) == [code |-> code, detail |-> <<>>]

LikelyScannedReason(m) ==
    [code |-> "likely_scanned_pdf: low_text_layer",
     detail |-> <<m.chars, m.textItems, m.pagesSampled>>]

\* The outcome of a call that raises instead of returning.
Thrown(what) ==
    [decision |-> "throw", schedule |-> UNDEF, candidate |-> UNDEF,
     reason |-> Reason(what), score |-> 0, scores |-> <<>>]

\* if (filenameMatch): null and the empty string are falsy.
Truthy(v) == v # NULL /\ v # UNDEF /\ v # <<>>

FloorOrZero(id, schedule) == IF schedule.id = id THEN SCORE_FLOOR ELSE 0

\* Mutant: the margin test is left out.
KeywordDecisionNoMargin(scores) ==
    LET sorted == SortDesc(scores)
    IN  IF sorted = <<>>
        THEN Thrown("TypeError")
        ELSE IF sorted[1][2] < SCORE_FLOOR
             THEN [decision |-> "review", schedule |-> UNDEF,
                   candidate |-> sorted[1][1], reason |-> Reason("low_confidence"),
                   score |-> sorted[1][2], scores |-> scores]
             ELSE [decision |-> "assigned", schedule |-> sorted[1][1],
                   candidate |-> UNDEF, reason |-> Reason("keyword_score"),
                   score |-> sorted[1][2], scores |-> scores]

KeywordDecision(scores) ==
    LET sorted == SortDesc(scores)
    IN  IF sorted = <<>>
        THEN Thrown("TypeError")   \* destructuring sorted[0] === undefined
        ELSE LET bestScheduleId == sorted[1][1]
                 bestScore == sorted[1][2]
                 runnerUpScore == IF Len(sorted) >= 2 THEN sorted[2][2] ELSE 0
                 margin == bestScore - runnerUpScore
             IN  IF bestScore < SCORE_FLOOR \/ margin < LOW_CONFIDENCE_MARGIN
                 THEN [decision |-> "review", schedule |-> UNDEF,
                       candidate |-> bestScheduleId,
                       reason |-> Reason("low_confidence"),
                       score |-> bestScore, scores |-> scores]
                 ELSE [decision |-> "assigned", schedule |-> bestScheduleId,
                       candidate |-> UNDEF,
                       reason |-> Reason("keyword_score"),
                       score |-> bestScore, scores |-> scores]

FilenameRuleDecision(filenameMatch, config) ==
    LET floor == [i \in DOMAIN config.schedules |->
                    FloorOrZero(filenameMatch, config.schedules[i])]
    IN  [decision |-> "assigned", schedule |-> filenameMatch, candidate |-> UNDEF,
         reason |-> Reason("filename_rule"), score |-> SCORE_FLOOR,
         scores |-> FillScores(<<>>, config.schedules, floor)]

\* Mutant: the score vector is left as created, without any category.
ZeroScoresLeftEmpty(config) == <<>>

ZeroScores(config) ==
    FillScores(<<>>, config.schedules, [i \in DOMAIN config.schedules |-> 0])

\* Mutant: only the text-item count is tested.
ScannedCheckItemsOnly(options) ==
    /\ options.isPdf
    /\ options.pdfMetrics.present
    /\ options.pdfMetrics.pagesSampled > 0
    /\ options.pdfMetrics.textItems < options.scannedThresholds.minTextItems

\* Mutant: the check is made even when no page was sampled.
ScannedCheckWithoutPages(options) ==
    /\ options.isPdf
    /\ options.pdfMetrics.present
    /\ \/ options.pdfMetrics.chars < options.scannedThresholds.minChars
       \/ options.pdfMetrics.textItems < options.scannedThresholds.minTextItems

ScannedCheck(options) ==
    /\ options.isPdf
    /\ options.pdfMetrics.present
    /\ options.pdfMetrics.pagesSampled > 0
    /\ \/ options.pdfMetrics.chars < options.scannedThresholds.minChars
       \/ options.pdfMetrics.textItems < options.scannedThresholds.minTextItems

classifyDocument(options) ==
    LET normalizedFilename == normalizeText(options.filename)
        filenameMatch == applyFilenameRules(normalizedFilename, options.config)
        score == [i \in DOMAIN options.config.schedules |->
                    scoreSchedule(options.text, options.config.schedules[i])]
    IN  IF Truthy(filenameMatch)
        THEN FilenameRuleDecision(filenameMatch, options.config)
        ELSE IF ScannedCheck(options)
        THEN [decision |-> "review", schedule |-> UNDEF, candidate |-> Unknown,
              reason |-> LikelyScannedReason(options.pdfMetrics),
              score |-> 0, scores |-> ZeroScores(options.config)]
        ELSE IF trim(options.text) = <<>>
        THEN [decision |-> "review", schedule |-> UNDEF, candidate |-> Unknown,
              reason |-> Reason("no_text_or_filename_rule"),
              score |-> 0, scores |-> ZeroScores(options.config)]
        ELSE KeywordDecision(FillScores(<<>>, options.config.schedules, score))

(***************************************************************************)
(* Output paths (App.tsx).  A ProcessedFile is a record                    *)
(*   [name, relativePath, hash, hashPrefix, decision, schedule, candidate, *)
(*    reason, score, outputPath, scores, overrideApplied].                 *)
(***************************************************************************)
S_DUPLICATES == <<"D", "U", "P", "L", "I", "C", "A", "T", "E", "S">>
S_706 == <<"7", "0", "6">>
S_ReviewNeeded == <<"R", "e", "v", "i", "e", "w", "N", "e", "e", "d", "e", "d">>
S_undefined == <<"u", "n", "d", "e", "f", "i", "n", "e", "d">>
S_dup == <<"_", "_", "d", "u", "p">>
S_error == <<"e", "r", "r", "o", "r", "-">>
S_pdf == <<".", "p", "d", "f">>
DigitSeq == <<"0", "1", "2", "3", "4", "5", "6", "7", "8", "9">>

\* Template-literal interpolation `${v}`.
ToStr(v) == IF v = UNDEF THEN S_undefined ELSE v

\* String(n) for a natural number.
RECURSIVE NatToStr(_)
NatToStr(n) ==
    IF n < 10 THEN <<DigitSeq[n + 1]>>
    ELSE NatToStr(n \div 10) \o <<DigitSeq[(n % 10) + 1]>>

\* s.slice(0, n)
SliceTo(s, n) == SubSeq(s, 1, IF Len(s) < n THEN Len(s) ELSE n)

\* s.slice(i) with a 1-based position
SliceFrom(s, i) == SubSeq(s, i, Len(s))

endsWith(s, t) == Len(s) >= Len(t) /\ SubSeq(s, Len(s) - Len(t) + 1, Len(s)) = t

\* s.lastIndexOf(c) with 1-based positions; 0 stands for -1.
lastIndexOf(s, c) ==
    LET hits == {i \in DOMAIN s : s[i] = c}
    IN  IF hits = {} THEN 0 ELSE CHOOSE i \in hits : \A j \in hits : i >= j

\* s.split('/')
RECURSIVE Split(_, _)
Split(s, cur) ==
    IF s = <<>> THEN <<cur>>
    ELSE IF Head(s) = "/" THEN <<cur>> \o Split(Tail(s), <<>>)
         ELSE Split(Tail(s), Append(cur, Head(s)))

\* segments.join('/')
RECURSIVE Join(_)
Join(segments) ==
    IF segments = <<>> THEN <<>>
    ELSE IF Len(segments) = 1 THEN segments[1]
         ELSE segments[1] \o <<"/">> \o Join(Tail(segments))

isPdfFile(filename) == endsWith(toLowerCase(filename), S_pdf)

getHashPrefix(hash) == SliceTo(hash, HashPrefixLen)

buildBaseOutputPath(file) ==
    IF file.decision = "duplicate"
    THEN Join(<<S_DUPLICATES, ToStr(file.hashPrefix), ToStr(file.name)>>)
    ELSE IF file.decision = "review"
    THEN LET candidate == IF file.candidate = UNDEF THEN Unknown ELSE file.candidate
         IN  Join(<<S_706, S_ReviewNeeded, candidate, file.name>>)
    ELSE Join(<<S_706, ToStr(file.schedule), file.name>>)

\* Mutant: the suffix is appended after the extension.
DupNameAfterExt(base, counter, ext) == base \o ext \o S_dup \o NatToStr(counter)

\* The candidate name with counter N: `${base}__dup${counter}${ext}`.
DupName(base, counter, ext) == base \o S_dup \o NatToStr(counter) \o ext

RECURSIVE FirstFreeCounter(_, _, _, _)
FirstFreeCounter(base, ext, counter, usedNames) ==
    IF DupName(base, counter, ext) \in usedNames
    THEN FirstFreeCounter(base, ext, counter + 1, usedNames)
    ELSE counter

\* Mutant: a used name is returned as it is.
ensureUniqueFilenameNoSuffix(name, usedNames) ==
    [name |-> name, used |-> usedNames \cup {name}]

\* Returns the name chosen and the updated set of used names.
ensureUniqueFilename(name, usedNames) ==
    IF name \notin usedNames
    THEN [name |-> name, used |-> usedNames \cup {name}]
    ELSE LET dotIndex == lastIndexOf(name, ".")
             base == IF dotIndex = 0 THEN name ELSE SubSeq(name, 1, dotIndex - 1)
             ext == IF dotIndex = 0 THEN <<>> ELSE SliceFrom(name, dotIndex)
             candidate == DupName(base, FirstFreeCounter(base, ext, 1, usedNames), ext)
         IN  [name |-> candidate, used |-> usedNames \cup {candidate}]

\* usedNamesByFolder is the set of <<dir, name>> pairs used so far.
UsedIn(usedNamesByFolder, dir) == {p[2] : p \in {q \in usedNamesByFolder : q[1] = dir}}

RECURSIVE AssignFrom(_, _)
AssignFrom(files, usedNamesByFolder) ==
    IF files = <<>> THEN <<>>
    ELSE LET file == Head(files)
             basePath == buildBaseOutputPath(file)
             segments == Split(basePath, <<>>)
             filename == segments[Len(segments)]
             dir == Join(SubSeq(segments, 1, Len(segments) - 1))
             unique == ensureUniqueFilename(filename, UsedIn(usedNamesByFolder, dir))
             outputPath == IF Len(dir) > 0 THEN dir \o <<"/">> \o unique.name
                           ELSE unique.name
         IN  <<[file EXCEPT !.outputPath = outputPath]>>
             \o AssignFrom(Tail(files),
                           usedNamesByFolder \cup {<<dir, n>> : n \in unique.used})

assignOutputPaths(files) == AssignFrom(files, {})

\* a.localeCompare(b) < 0 on the characters of paths: punctuation sorts
\* before digits, digits before letters.
CollationOrder == <<"_", "-", ".", "/">> \o DigitSeq \o LowerSeq

CollationKey(c) ==
    LET hits == {i \in DOMAIN CollationOrder : CollationOrder[i] = LowerChar(c)}
    IN  IF hits = {} THEN 0 ELSE CHOOSE i \in hits : TRUE

RECURSIVE localeCompareLess(_, _)
localeCompareLess(a, b) ==
    IF b = <<>> THEN FALSE
    ELSE IF a = <<>> THEN TRUE
    ELSE IF CollationKey(Head(a)) # CollationKey(Head(b))
         THEN CollationKey(Head(a)) < CollationKey(Head(b))
         ELSE localeCompareLess(Tail(a), Tail(b))

\* [...files].sort((a, b) => a.relativePath.localeCompare(b.relativePath)),
\* a stable sort.
RECURSIVE InsertByRelativePath(_, _)
InsertByRelativePath(file, sorted) ==
    IF sorted = <<>> THEN <<file>>
    ELSE IF localeCompareLess(file.relativePath, Head(sorted).relativePath)
         THEN <<file>> \o sorted
         ELSE <<Head(sorted)>> \o InsertByRelativePath(file, Tail(sorted))

RECURSIVE SortByRelativePath(_)
SortByRelativePath(files) ==
    IF files = <<>> THEN <<>>
    ELSE InsertByRelativePath(files[Len(files)],
                              SortByRelativePath(SubSeq(files, 1, Len(files) - 1)))

(***************************************************************************)
(* Collaborators: hashing (hash.ts) and text extraction (pdfText.ts).      *)
(* A document's bytes are a content number; a PDF's content is a sequence  *)
(* of pages, each a sequence of text items (strings).                      *)
(***************************************************************************)
MAX_PAGES_SAMPLED == 6
STOP_AFTER_CHARS == 5000

Contents == {1, 2}

\* digest(bytes): a fixed-length hexadecimal string that depends on the bytes only.
hashArrayBuffer(content) ==
    <<DigitSeq[content + 1], "a", "f", "0", "0", "0", "0", "0", "0", "0", "0", "0">>

\* Content 1 has one page holding the text item "aa"; content 2 has one page
\* without any text item (a scanned page).
PdfPages(content) ==
    IF content = 1 THEN << << <<"a", "a">> >> >> ELSE << <<>> >>

RECURSIVE JoinWithSpace(_)
JoinWithSpace(strings) ==
    IF strings = <<>> THEN <<>>
    ELSE IF Len(strings) = 1 THEN strings[1]
         ELSE strings[1] \o <<" ">> \o JoinWithSpace(Tail(strings))

Min(a, b) == IF a < b THEN a ELSE b

\* The page loop of extractPdfText, from page i on.
RECURSIVE ExtractPages(_, _, _, _, _)
ExtractPages(pages, i, pagesSampled, text, textItems) ==
    IF i > pagesSampled THEN [text |-> text, textItems |-> textItems]
    ELSE LET items == pages[i]
             strings == SelectSeq(items, LAMBDA str : str # <<>>)
             text2 == text \o JoinWithSpace(strings) \o <<"\n">>
         IN  IF Len(text2) >= STOP_AFTER_CHARS
             THEN [text |-> text2, textItems |-> textItems + Len(items)]
             ELSE ExtractPages(pages, i + 1, pagesSampled, text2, textItems + Len(items))

extractPdfText(content) ==
    LET pages == PdfPages(content)
        numPages == Len(pages)
        pagesSampled == Min(numPages, MAX_PAGES_SAMPLED)
        r == ExtractPages(pages, 1, pagesSampled, <<>>, 0)
    IN  [present |-> TRUE, text |-> r.text, numPages |-> numPages,
         pagesSampled |-> pagesSampled, chars |-> Len(r.text), textItems |-> r.textItems]

\* pdfMetrics === undefined
NoMetrics ==
    [present |-> FALSE, text |-> <<>>, numPages |-> 0,
     pagesSampled |-> 0, chars |-> 0, textItems |-> 0]

(***************************************************************************)
(* Inputs.                                                                 *)
(***************************************************************************)
IdA == <<"A">>
IdB == <<"B">>
Id1 == <<"1">>
TermA == <<"a">>
TermB == <<"B">>

WT(term, weight) == [term |-> term, weight |-> weight]
Sched(id, keywords, smallTerms) ==
    [id |-> id, keywords |-> keywords, smallTerms |-> smallTerms]
Rule(pattern, schedule) == [pattern |-> pattern, schedule |-> schedule]

DEFAULT_SCAN_THRESHOLDS ==
    [minChars |-> DefaultMinChars, minTextItems |-> DefaultMinTextItems]

(***************************************************************************)
(* Inputs of the classification engine.                                    *)
(***************************************************************************)
Weights == {-4, 16, 20}

KeywordLists(term) == {<<>>} \cup {<<WT(term, w)>> : w \in Weights}
SmallTermLists == {<<>>, <<WT(TermA, 3)>>}

DefsA == {Sched(IdA, k, s) : k \in KeywordLists(TermA), s \in SmallTermLists}
DefsB == {Sched(IdB, k, <<>>) : k \in KeywordLists(TermB)}
Defs1 == {Sched(Id1, k, <<>>) : k \in KeywordLists(TermA)}

ScheduleLists ==
    {<<>>} \cup {<<a>> : a \in DefsA}
           \cup {<<a, b>> : a \in DefsA, b \in DefsB}
           \cup {<<b, a>> : a \in DefsA, b \in DefsB}
           \cup {<<a, n>> : a \in {d \in DefsA : d.smallTerms = <<>>}, n \in Defs1}

RuleLists ==
    { <<>>,
      <<Rule(<<"a">>, IdA)>>,
      <<Rule(<<"a">>, IdA), Rule(<<"B">>, IdB)>>,
      <<Rule(<<"b">>, IdB), Rule(<<"A">>, IdA)>> }

ScheduleConfigs == [schedules : ScheduleLists, filenameRules : RuleLists]

TextAlphabet == {"a", "B", "-", " "}

RECURSIVE SeqsUpTo(_, _)
SeqsUpTo(S, n) ==
    IF n = 0 THEN {<<>>}
    ELSE LET shorter == SeqsUpTo(S, n - 1)
         IN  shorter \cup {Append(t, c) : t \in shorter, c \in S}

Texts == SeqsUpTo(TextAlphabet, MaxTextLen)

Filenames == { <<"A", "-", "b", ".", "p", "d", "f">>, <<"c", ".", "p", "n", "g">> }

Metrics(chars, textItems, pagesSampled) ==
    [present |-> TRUE, text |-> <<>>, numPages |-> pagesSampled,
     pagesSampled |-> pagesSampled, chars |-> chars, textItems |-> textItems]

MetricsChoices ==
    { NoMetrics,
      Metrics(DefaultMinChars - 1, DefaultMinTextItems, 1),
      Metrics(DefaultMinChars, DefaultMinTextItems - 1, 1),
      Metrics(DefaultMinChars, DefaultMinTextItems, 1),
      Metrics(0, 0, 0) }

ClassifyOptions ==
    [filename : Filenames, text : Texts, isPdf : BOOLEAN,
     config : {compileScheduleConfig(c) : c \in ScheduleConfigs},
     pdfMetrics : MetricsChoices,
     scannedThresholds : {DEFAULT_SCAN_THRESHOLDS}]

\* Inputs of repeated calls on one compiled configuration.
MaxCalls == 3

RepeatInputs ==
    [filename : Filenames, text : {<<>>, TermA}, isPdf : BOOLEAN,
     pdfMetrics : {NoMetrics, Metrics(DefaultMinChars - 1, DefaultMinTextItems, 1)},
     scannedThresholds : {DEFAULT_SCAN_THRESHOLDS}]

RepeatConfigs ==
    {compileScheduleConfig(c) :
       c \in {sc \in ScheduleConfigs :
                 sc.schedules = <<Sched(IdA, <<WT(TermA, 20)>>, <<>>),
                                  Sched(IdB, <<>>, <<>>)>>}}

NotCalled ==
    [decision |-> "none", schedule |-> UNDEF, candidate |-> UNDEF,
     reason |-> Reason("none"), score |-> 0, scores |-> <<>>]

(***************************************************************************)
(* Inputs of the pipeline.  The i-th selected file lies in folder d<i>,    *)
(* so relative source paths are distinct.                                  *)
(***************************************************************************)
TEXT_SAMPLE_LEN == 200

ConcurrencyChoices == {1, 2, 3, 4}

Name_a_pdf == <<"a", ".", "p", "d", "f">>
Name_b_png == <<"b", ".", "p", "n", "g">>

\* The documents a folder may hold: name and content.
Documents == {<<Name_a_pdf, 1>>, <<Name_a_pdf, 2>>, <<Name_b_png, 1>>}

SelectedFile(i, name, content) ==
    [name |-> name,
     relativePath |-> <<"d">> \o NatToStr(i) \o <<"/">> \o name,
     content |-> content]

RECURSIVE Selections(_)
Selections(n) ==
    IF n = 0 THEN {<<>>}
    ELSE {Append(sel, SelectedFile(n, d[1], d[2])) :
            sel \in Selections(n - 1), d \in Documents}

SelectionChoices == UNION {Selections(n) : n \in 1..MaxFiles}

ConfigAB ==
    [schedules |-> <<Sched(IdA, <<WT(<<"a">>, 9)>>, <<>>),
                     Sched(IdB, <<WT(<<"b">>, 9)>>, <<>>)>>,
     filenameRules |-> <<Rule(<<"b">>, IdB)>>]

ConfigEmpty == [schedules |-> <<>>, filenameRules |-> <<>>]

SmallThresholds == [minChars |-> 3, minTextItems |-> 1]

\* A map (Record<string, T> or Map<string, T>) is a function on its keys.
EmptyMap == [k \in {} |-> 0]
MapHas(m, k) == k \in DOMAIN m
MapSet(m, k, v) == [x \in DOMAIN m \cup {k} |-> IF x = k THEN v ELSE m[x]]
MapDelete(m, k) == [x \in DOMAIN m \ {k} |-> m[x]]

\* The configuration, thresholds and stored overrides a session starts with.
\* Overrides are stored apart from the configuration and outlive its edits:
\* the last setup holds an override whose category is no longer configured.
Setups ==
    { [config |-> ConfigAB, thresholds |-> SmallThresholds, overrides |-> EmptyMap],
      [config |-> ConfigAB, thresholds |-> SmallThresholds,
       overrides |-> MapSet(MapSet(EmptyMap, hashArrayBuffer(1), IdB),
                            S_error \o NatToStr(0), IdA)],
      [config |-> ConfigEmpty, thresholds |-> SmallThresholds,
       overrides |-> MapSet(EmptyMap, hashArrayBuffer(2), IdA)] }

Status(kind, n, m) == [kind |-> kind, n |-> n, m |-> m]

(***************************************************************************)
(* Inputs of the rules editor: texts that JSON.parse rejects or parses to  *)
(* a value, and what local storage holds.                                  *)
(***************************************************************************)
MaxAudit == 2

RulesText(parses, value) == [parses |-> parses, value |-> value]
NoText == RulesText(FALSE, JUndefined)

Stored(present, value) == [present |-> present, value |-> value]
NoStored == Stored(FALSE, JUndefined)

NotValidated == [called |-> FALSE, hasConfig |-> FALSE, config |-> JUndefined,
                 errors |-> <<>>, thrown |-> FALSE]

Validated(v) == [called |-> TRUE, hasConfig |-> v.hasConfig, config |-> v.config,
                 errors |-> v.errors, thrown |-> v.thrown]

RawTerm(term, weight) == JObj([term |-> term, weight |-> weight])

RawSchedule(id, label, keywords, smallTerms) ==
    JObj([id |-> id, label |-> label, keywords |-> keywords, smallTerms |-> smallTerms])

RawRule(pattern, schedule) == JObj([pattern |-> pattern, schedule |-> schedule])

RawConfig(schedules, filenameRules) ==
    JObj([schedules |-> schedules, filenameRules |-> filenameRules])

OneSchedule(schedule) == RawConfig(JArr(<<schedule>>), JArr(<<>>))

OneRule(rule) == RawConfig(JArr(<<>>), JArr(<<rule>>))

GoodTerms == JArr(<<RawTerm(JStr(TermA), JNum(9))>>)

\* getDefaultConfig(): the configuration shipped with the application.
DefaultConfig == ConfigToJson(ConfigAB)

ValidRawConfigs ==
    { DefaultConfig,
      ConfigToJson(ConfigEmpty),
      OneSchedule(RawSchedule(JStr(IdA), JStr(IdA),
                              JArr(<<RawTerm(JStr(TermA), JNum(-4))>>), JArr(<<>>))) }

RawConfigs ==
    ValidRawConfigs \cup
    { JNull, JStr(<<"a">>), JNum(0), JArr(<<>>), JObj(<<>>),
      RawConfig(JArr(<<JNull>>), JArr(<<>>)),
      RawConfig(JArr(<<>>), JNull),
      OneSchedule(RawSchedule(JStr(<<>>), JStr(IdA), GoodTerms, JArr(<<>>))),
      OneSchedule(JObj([id |-> JStr(IdA), keywords |-> GoodTerms,
                        smallTerms |-> JArr(<<>>)])),
      OneSchedule(JObj([id |-> JStr(IdA), label |-> JStr(IdA),
                        smallTerms |-> JArr(<<>>)])),
      OneSchedule(RawSchedule(JStr(IdA), JStr(IdA), JNum(5), JArr(<<>>))),
      OneSchedule(RawSchedule(JStr(IdA), JStr(IdA), GoodTerms, JStr(<<"a">>))),
      OneSchedule(RawSchedule(JStr(IdA), JStr(IdA), JArr(<<JNull>>), JArr(<<>>))),
      OneSchedule(RawSchedule(JStr(IdA), JStr(IdA),
                              JArr(<<RawTerm(JStr(TermA), JStr(<<"9">>))>>), JArr(<<>>))),
      OneSchedule(RawSchedule(JStr(IdA), JStr(IdA),
                              JArr(<<RawTerm(JNum(1), JNum(9))>>), JArr(<<>>))),
      OneSchedule(RawSchedule(JStr(IdA), JStr(IdA),
                              JArr(<<RawTerm(JStr(TermA), JInfinity)>>), JArr(<<>>))),
      OneRule(RawRule(JStr(<<"(">>), JStr(IdA))),
      OneRule(RawRule(JStr(<<>>), JStr(IdA))),
      OneRule(RawRule(JStr(<<"a">>), JStr(<<>>))),
      OneRule(JNum(5)) }

RulesTexts == {NoText} \cup {RulesText(TRUE, raw) : raw \in RawConfigs}

StoredChoices ==
    { NoStored,
      Stored(TRUE, ConfigToJson(ConfigEmpty)),
      Stored(TRUE, JObj(<<>>)),
      Stored(TRUE, OneSchedule(RawSchedule(JStr(IdA), JStr(IdA), JNum(5), JArr(<<>>)))) }

NoCapture ==
    [items |-> <<>>, concurrency |-> 0, config |-> compileScheduleConfig(ConfigEmpty),
     overrides |-> EmptyMap, thresholds |-> DEFAULT_SCAN_THRESHOLDS]

(***************************************************************************)
(* State.                                                                  *)
(*   options, result: the input and the result of a classifyDocument call  *)
(*   calls: the calls of classifyDocument made on one compiled             *)
(*   configuration, each with its input and its result (RepeatSpec).       *)
(*   (the specification ClassifySpec).                                     *)
(*   The React state of App: selectedFiles, scheduleConfig, scanThresholds,*)
(*   reviewOverrides, storedOverrides (the override map in local storage), *)
(*   concurrency, processedFiles, sourcePaths, status,                     *)
(*   isProcessing, isCancelled, progressTotal, progressDone,               *)
(*   progressCurrentName.                                                  *)
(*   One run of handleRunSort: captured (the values its closure holds),    *)
(*   processed, seenHashes, sourcePathsMap, aborted (the AbortController's *)
(*   signal), currentIndex, active and resolved of runWithConcurrency, pc  *)
(*   (where each worker stands) and failure (what raised for a document).  *)
(*   The rules editor: rulesText (the text of the editor), rulesErrors,    *)
(*   rulesAuditLog, storedConfig (the configuration in local storage) and  *)
(*   validation (what the last call of validateScheduleConfig gave).       *)
(***************************************************************************)
VARIABLES options, result, calls,
          selectedFiles, scheduleConfig, scanThresholds, reviewOverrides,
          storedOverrides,
          concurrency, processedFiles, sourcePaths, status, isProcessing,
          isCancelled, progressTotal, progressDone, progressCurrentName,
          captured, processed, seenHashes, sourcePathsMap, aborted,
          currentIndex, active, resolved, pc, failure, runs,
          rulesText, rulesErrors, rulesAuditLog, storedConfig, validation,
          argFiles, returned

\* The argument and the return value of a helper called on its own
\* (assignOutputPaths, buildReviewClusters).
helperVars == <<argFiles, returned>>
classifyVars == <<options, result, calls, helperVars>>
rulesVars == <<rulesText, rulesErrors, rulesAuditLog, storedConfig, validation>>
settingVars == <<selectedFiles, scheduleConfig, scanThresholds, concurrency, rulesVars>>
appVars == <<reviewOverrides, storedOverrides, processedFiles, sourcePaths, status, isProcessing,
             isCancelled, progressTotal, progressDone, progressCurrentName>>
runVars == <<captured, processed, seenHashes, sourcePathsMap, aborted,
             currentIndex, active, resolved, pc, failure, runs>>
vars == <<classifyVars, settingVars, appVars, runVars>>

\* The rules editor as the pipeline leaves it: the editor is not used.
RulesClosed ==
    /\ rulesText = NoText
    /\ rulesErrors = <<>>
    /\ rulesAuditLog = <<>>
    /\ storedConfig = NoStored
    /\ validation = NotValidated

NotReturned == [called |-> FALSE, value |-> <<>>]
Returned(value) == [called |-> TRUE, value |-> value]

\* No helper is called on its own.
HelpersIdle ==
    /\ argFiles = <<>>
    /\ returned = NotReturned

\* The state of App before any run, with the files of a folder selected.
AppInitRest ==
    /\ selectedFiles \in SelectionChoices
    /\ concurrency \in ConcurrencyChoices
    /\ \E setup \in Setups :
         /\ scheduleConfig = ConfigToJson(setup.config)
         /\ scanThresholds = setup.thresholds
         /\ reviewOverrides = setup.overrides
         /\ storedOverrides = setup.overrides
    /\ calls = <<>>
    /\ processedFiles = <<>>
    /\ sourcePaths = EmptyMap
    /\ status = Status("ready", Len(selectedFiles), 0)
    /\ isProcessing = FALSE
    /\ isCancelled = FALSE
    /\ progressTotal = Len(selectedFiles)
    /\ progressDone = 0
    /\ progressCurrentName = <<>>
    /\ captured = NoCapture
    /\ processed = <<>>
    /\ seenHashes = EmptyMap
    /\ sourcePathsMap = EmptyMap
    /\ aborted = FALSE
    /\ currentIndex = 0
    /\ active = 0
    /\ resolved = FALSE
    /\ pc = <<>>
    /\ failure = <<>>
    /\ runs = 0

AppInit ==
    /\ AppInitRest
    /\ RulesClosed
    /\ HelpersIdle

\* App with no file selected and no run made.
AppIdleRest ==
    /\ selectedFiles = <<>>
    /\ concurrency = 2
    /\ scanThresholds = DEFAULT_SCAN_THRESHOLDS
    /\ reviewOverrides = EmptyMap
    /\ storedOverrides = EmptyMap
    /\ calls = <<>>
    /\ processedFiles = <<>>
    /\ sourcePaths = EmptyMap
    /\ status = Status("idle", 0, 0)
    /\ isProcessing = FALSE
    /\ isCancelled = FALSE
    /\ progressTotal = 0
    /\ progressDone = 0
    /\ progressCurrentName = <<>>
    /\ captured = NoCapture
    /\ processed = <<>>
    /\ seenHashes = EmptyMap
    /\ sourcePathsMap = EmptyMap
    /\ aborted = FALSE
    /\ currentIndex = 0
    /\ active = 0
    /\ resolved = FALSE
    /\ pc = <<>>
    /\ failure = <<>>
    /\ runs = 0

AppIdle ==
    /\ scheduleConfig = ConfigToJson(ConfigEmpty)
    /\ RulesClosed
    /\ AppIdleRest
    /\ HelpersIdle

(***************************************************************************)
(* The classification engine alone: one call on an input drawn from        *)
(* ClassifyOptions.                                                        *)
(***************************************************************************)
ClassifyInit ==
    /\ options \in ClassifyOptions
    /\ result = NotCalled
    /\ AppIdle

\* One call of classifyDocument on the chosen input.
ClassifyCall ==
    /\ result = NotCalled
    /\ result' = classifyDocument(options)
    /\ UNCHANGED <<options, calls, helperVars, settingVars, appVars, runVars>>

ClassifyNext == ClassifyCall

ClassifySpec == ClassifyInit /\ [][ClassifyNext]_vars

(***************************************************************************)
(* Repeated calls of classifyDocument on one compiled configuration, as    *)
(* the workers of a run make them: the configuration object, with its      *)
(* matchers, is shared by the calls.                                       *)
(***************************************************************************)
RepeatInit ==
    /\ \E config \in RepeatConfigs :
          options = [filename |-> <<>>, text |-> <<>>, isPdf |-> FALSE,
                     config |-> config, pdfMetrics |-> NoMetrics,
                     scannedThresholds |-> DEFAULT_SCAN_THRESHOLDS]
    /\ result = NotCalled
    /\ AppIdle

\* One more call, on the configuration as the calls before left it.
ClassifyAgain ==
    /\ Len(calls) < MaxCalls
    /\ \E input \in RepeatInputs :
          LET o == [filename |-> input.filename, text |-> input.text,
                    isPdf |-> input.isPdf, config |-> options.config,
                    pdfMetrics |-> input.pdfMetrics,
                    scannedThresholds |-> input.scannedThresholds]
          IN  /\ result' = classifyDocument(o)
              /\ options' = [o EXCEPT !.config.filenameRules =
                                RulesAfterTests(normalizeText(o.filename),
                                                o.config.filenameRules)]
              /\ calls' = Append(calls, [input |-> input,
                                         result |-> classifyDocument(o)])
    /\ UNCHANGED <<helperVars, settingVars, appVars, runVars>>

RepeatNext == ClassifyAgain

RepeatSpec == RepeatInit /\ [][RepeatNext]_vars

(***************************************************************************)
(* The processing pipeline: handleRunSort and runWithConcurrency.          *)
(***************************************************************************)
Entry(index, item, hash, c, pdfMetrics, textSample, overrideApplied) ==
    [file |-> index, name |-> item.name, relativePath |-> item.relativePath,
     hash |-> hash, hashPrefix |-> getHashPrefix(hash),
     decision |-> c.decision, schedule |-> c.schedule, candidate |-> c.candidate,
     reason |-> c.reason, score |-> c.score, outputPath |-> <<>>,
     scores |-> c.scores, pdfMetrics |-> pdfMetrics, textSample |-> textSample,
     overrideApplied |-> overrideApplied]

\* duplicateEntry: the fields of the entry registered for the digest.
DuplicateEntry(index, item, hash, duplicate) ==
    Entry(index, item, hash,
          [decision |-> "duplicate", schedule |-> duplicate.schedule,
           candidate |-> duplicate.candidate, reason |-> Reason("sha256_duplicate"),
           score |-> duplicate.score, scores |-> duplicate.scores],
          NoMetrics, UNDEF, UNDEF)

OverrideScores(overrideSchedule, config) ==
    FillScores(<<>>, config.schedules,
               [i \in DOMAIN config.schedules |->
                  FloorOrZero(overrideSchedule, config.schedules[i])])

OverrideEntry(index, item, hash, overrideSchedule, config) ==
    Entry(index, item, hash,
          [decision |-> "assigned", schedule |-> overrideSchedule,
           candidate |-> UNDEF, reason |-> Reason("review_override"),
           score |-> SCORE_FLOOR, scores |-> OverrideScores(overrideSchedule, config)],
          NoMetrics, UNDEF, JsTrue)

PdfParseErrorEntry(index, item, hash) ==
    Entry(index, item, hash,
          [decision |-> "review", schedule |-> UNDEF, candidate |-> Unknown,
           reason |-> Reason("pdf_parse_error"), score |-> 0, scores |-> <<>>],
          NoMetrics, UNDEF, UNDEF)

\* The outer catch: index is the 0-based position of the item.
ProcessingErrorEntry(index, item) ==
    Entry(index, item, S_error \o NatToStr(index - 1),
          [decision |-> "review", schedule |-> UNDEF, candidate |-> Unknown,
           reason |-> Reason("processing_error"), score |-> 0, scores |-> <<>>],
          NoMetrics, UNDEF, UNDEF)

ClassifiedEntry(index, item, hash, classification, text, pdfMetrics) ==
    Entry(index, item, hash, classification, pdfMetrics,
          IF classification.decision = "review"
          THEN SliceTo(text, TEXT_SAMPLE_LEN) ELSE UNDEF,
          UNDEF)

\* The while loop of scheduleNext: start workers while the run is not
\* aborted, a slot is free and an item is left.  A started worker runs up to
\* its first await (item.file.arrayBuffer()); its own isAborted() test cannot
\* succeed, the loop having just tested the same signal.
RECURSIVE StartLoopIgnoresAbort(_, _, _, _)
\* Mutant: the loop does not test the cancellation signal.
StartLoopIgnoresAbort(st, items, limit, isAborted) ==
    IF st.active < limit /\ st.currentIndex < Len(items)
    THEN StartLoopIgnoresAbort([st EXCEPT !.currentIndex = @ + 1,
                                          !.active = @ + 1,
                                          !.pc[st.currentIndex + 1] = "hashing",
                                          !.currentName = items[st.currentIndex + 1].relativePath],
                               items, limit, isAborted)
    ELSE st

RECURSIVE StartLoopOffByOne(_, _, _, _)
\* Mutant: the loop admits one worker more than the limit.
StartLoopOffByOne(st, items, limit, isAborted) ==
    IF ~isAborted /\ st.active <= limit /\ st.currentIndex < Len(items)
    THEN StartLoopOffByOne([st EXCEPT !.currentIndex = @ + 1,
                                      !.active = @ + 1,
                                      !.pc[st.currentIndex + 1] = "hashing",
                                      !.currentName = items[st.currentIndex + 1].relativePath],
                           items, limit, isAborted)
    ELSE st

RECURSIVE StartLoop(_, _, _, _)
StartLoop(st, items, limit, isAborted) ==
    IF ~isAborted /\ st.active < limit /\ st.currentIndex < Len(items)
    THEN StartLoop([st EXCEPT !.currentIndex = @ + 1,
                              !.active = @ + 1,
                              !.pc[st.currentIndex + 1] = "hashing",
                              !.currentName = items[st.currentIndex + 1].relativePath],
                   items, limit, isAborted)
    ELSE st

\* Mutant: scheduleNext does not resolve on finding the run aborted.
scheduleNextIgnoresAbort(st, items, limit, isAborted) ==
    LET st2 == StartLoop(st, items, limit, isAborted)
    IN  IF st2.currentIndex >= Len(items) /\ st2.active = 0
        THEN [st2 EXCEPT !.resolved = TRUE]
        ELSE st2

scheduleNext(st, items, limit, isAborted) ==
    IF isAborted /\ st.active = 0
    THEN [st EXCEPT !.resolved = TRUE]
    ELSE LET st2 == StartLoop(st, items, limit, isAborted)
         IN  IF st2.currentIndex >= Len(items) /\ st2.active = 0
             THEN [st2 EXCEPT !.resolved = TRUE]
             ELSE st2

\* Mutant: the finally callback resolves once every item has been started,
\* without waiting for the workers still active.
WorkerSettledEarly(st, index, items, limit, isAborted) ==
    LET st1 == [st EXCEPT !.active = @ - 1, !.pc[index] = "done"]
    IN  IF st1.currentIndex >= Len(items)
        THEN [st1 EXCEPT !.resolved = TRUE]
        ELSE scheduleNext(st1, items, limit, isAborted)

\* The finally callback of a settled worker promise.
WorkerSettled(st, index, items, limit, isAborted) ==
    LET st1 == [st EXCEPT !.active = @ - 1, !.pc[index] = "done"]
    IN  IF st1.currentIndex >= Len(items) /\ st1.active = 0
        THEN [st1 EXCEPT !.resolved = TRUE]
        ELSE scheduleNext(st1, items, limit, isAborted)

PoolState ==
    [currentIndex |-> currentIndex, active |-> active, pc |-> pc,
     resolved |-> resolved, currentName |-> progressCurrentName]

SetPool(st) ==
    /\ currentIndex' = st.currentIndex
    /\ active' = st.active
    /\ pc' = st.pc
    /\ resolved' = st.resolved
    /\ progressCurrentName' = st.currentName

\* handleRunSort up to its await of runWithConcurrency, whose first
\* scheduleNext starts the first workers.
BeginRun(limit) ==
    /\ ~isProcessing
    /\ runs < limit
    /\ runs' = runs + 1
    /\ isProcessing' = TRUE
    /\ isCancelled' = FALSE
    /\ progressTotal' = Len(selectedFiles)
    /\ progressDone' = 0
    /\ status' = Status("processing", 0, 0)
    /\ aborted' = FALSE
    /\ processed' = <<>>
    /\ seenHashes' = EmptyMap
    /\ sourcePathsMap' = EmptyMap
    /\ captured' = [items |-> selectedFiles, concurrency |-> concurrency,
                    config |-> compileScheduleConfig(ScheduleConfigOf(scheduleConfig)),
                    overrides |-> reviewOverrides, thresholds |-> scanThresholds]
    /\ failure' = [i \in DOMAIN selectedFiles |-> "none"]
    /\ SetPool(scheduleNext([currentIndex |-> 0, active |-> 0,
                             pc |-> [i \in DOMAIN selectedFiles |-> "queued"],
                             resolved |-> FALSE, currentName |-> <<>>],
                            selectedFiles, concurrency, FALSE))
    /\ UNCHANGED <<classifyVars, settingVars, reviewOverrides, storedOverrides, processedFiles,
                   sourcePaths>>

\* handleRunSort returns at once when no file is selected.
StartRunWithin(limit) ==
    /\ selectedFiles # <<>>
    /\ BeginRun(limit)

StartRun == StartRunWithin(MaxRuns)

\* Mutant: the entry of a failed document is not pushed.
WorkerReturnsDropsFailed(index, entry, registered, why) ==
    /\ processed' = IF why = "none" THEN Append(processed, entry) ELSE processed
    /\ seenHashes' = IF registered THEN MapSet(seenHashes, entry.hash, entry)
                     ELSE seenHashes
    /\ failure' = [failure EXCEPT ![index] = why]
    /\ progressDone' = progressDone + 1
    /\ SetPool(WorkerSettled(PoolState, index, captured.items,
                              captured.concurrency, aborted))

\* Mutant: a document that failed is not counted as completed.
WorkerReturnsCountsSuccess(index, entry, registered, why) ==
    /\ processed' = Append(processed, entry)
    /\ seenHashes' = IF registered THEN MapSet(seenHashes, entry.hash, entry)
                     ELSE seenHashes
    /\ failure' = [failure EXCEPT ![index] = why]
    /\ progressDone' = IF why = "none" THEN progressDone + 1 ELSE progressDone
    /\ SetPool(WorkerSettled(PoolState, index, captured.items,
                              captured.concurrency, aborted))

\* A worker returns the entry it pushed (or the entry of the outer catch);
\* its finally block counts it and runWithConcurrency's callbacks follow.
WorkerReturns(index, entry, registered, why) ==
    /\ processed' = Append(processed, entry)
    /\ seenHashes' = IF registered THEN MapSet(seenHashes, entry.hash, entry)
                     ELSE seenHashes
    /\ failure' = [failure EXCEPT ![index] = why]
    /\ progressDone' = progressDone + 1
    /\ SetPool(WorkerSettled(PoolState, index, captured.items,
                              captured.concurrency, aborted))

\* classifyDocument and what follows it in the worker.
\* Mutant: the worker reads the configuration and the thresholds in force
\* when it resumes, not those of the render that started the run.
ClassifyAndReturnLive(index, item, hash, text, pdfMetrics) ==
    LET classification ==
            classifyDocument([filename |-> item.name, text |-> text,
                              isPdf |-> isPdfFile(item.name),
                              config |-> compileScheduleConfig(
                                             ScheduleConfigOf(scheduleConfig)),
                              pdfMetrics |-> pdfMetrics,
                              scannedThresholds |-> scanThresholds])
    IN  IF classification.decision = "throw"
        THEN WorkerReturns(index, ProcessingErrorEntry(index, item), FALSE, "classify")
        ELSE WorkerReturns(index,
                           ClassifiedEntry(index, item, hash, classification,
                                           text, pdfMetrics),
                           TRUE, "none")

\* The worker's classification of a document whose digest is known and new.
ClassifyAndReturn(index, item, hash, text, pdfMetrics) ==
    LET classification ==
            classifyDocument([filename |-> item.name, text |-> text,
                              isPdf |-> isPdfFile(item.name),
                              config |-> captured.config,
                              pdfMetrics |-> pdfMetrics,
                              scannedThresholds |-> captured.thresholds])
    IN  IF classification.decision = "throw"
        THEN WorkerReturns(index, ProcessingErrorEntry(index, item), FALSE, "classify")
        ELSE WorkerReturns(index,
                           ClassifiedEntry(index, item, hash, classification,
                                           text, pdfMetrics),
                           TRUE, "none")

PushSourcePath(m, hashPrefix, relativePath) ==
    MapSet(m, hashPrefix,
           IF MapHas(m, hashPrefix) THEN Append(m[hashPrefix], relativePath)
           ELSE <<relativePath>>)

\* The collaborators raise at most MaxFailures times in a run.
MayFail ==
    Cardinality({i \in DOMAIN failure : failure[i] \in {"hash", "extract"}}) < MaxFailures

\* The worker resumes after item.file.arrayBuffer() and hashArrayBuffer():
\* either of them raised, or the digest is known.
HashDone(index) ==
    /\ isProcessing
    /\ index \in DOMAIN pc
    /\ pc[index] = "hashing"
    /\ LET item == captured.items[index]
           hash == hashArrayBuffer(item.content)
       IN  \/ /\ MayFail
              /\ WorkerReturns(index, ProcessingErrorEntry(index, item), FALSE, "hash")
              /\ UNCHANGED sourcePathsMap
           \/ /\ sourcePathsMap' =
                    PushSourcePath(sourcePathsMap, getHashPrefix(hash), item.relativePath)
              /\ IF MapHas(seenHashes, hash)
                 THEN WorkerReturns(index,
                                    DuplicateEntry(index, item, hash, seenHashes[hash]),
                                    FALSE, "none")
                 ELSE IF MapHas(captured.overrides, hash)
                         /\ Truthy(captured.overrides[hash])
                 THEN WorkerReturns(index,
                                    OverrideEntry(index, item, hash,
                                                  captured.overrides[hash],
                                                  captured.config),
                                    TRUE, "none")
                 ELSE IF isPdfFile(item.name)
                 THEN /\ pc' = [pc EXCEPT ![index] = "extracting"]
                      /\ UNCHANGED <<processed, seenHashes, failure, progressDone,
                                     currentIndex, active, resolved,
                                     progressCurrentName>>
                 ELSE ClassifyAndReturn(index, item, hash, <<>>, NoMetrics)
    /\ UNCHANGED <<classifyVars, settingVars, reviewOverrides, storedOverrides, processedFiles,
                   sourcePaths, status, isProcessing, isCancelled, progressTotal,
                   captured, aborted, runs>>

\* The worker resumes after extractPdfText(buffer): it raised (a corrupt
\* document, a timeout), or the text and its metrics are known.
ExtractDone(index) ==
    /\ isProcessing
    /\ index \in DOMAIN pc
    /\ pc[index] = "extracting"
    /\ LET item == captured.items[index]
           hash == hashArrayBuffer(item.content)
           pdfMetrics == extractPdfText(item.content)
       IN  \/ /\ MayFail
              /\ WorkerReturns(index, PdfParseErrorEntry(index, item, hash), TRUE, "extract")
           \/ ClassifyAndReturn(index, item, hash, pdfMetrics.text, pdfMetrics)
    /\ UNCHANGED <<classifyVars, settingVars, reviewOverrides, storedOverrides, processedFiles,
                   sourcePaths, sourcePathsMap, status, isProcessing, isCancelled,
                   progressTotal, captured, aborted, runs>>

\* handleCancel, offered while a run is in progress.
Cancel ==
    /\ isProcessing
    /\ ~resolved
    /\ aborted' = TRUE
    /\ isCancelled' = TRUE
    /\ status' = Status("cancelled", progressDone, progressTotal)
    /\ UNCHANGED <<classifyVars, settingVars, reviewOverrides, storedOverrides, processedFiles,
                   sourcePaths, isProcessing, progressTotal, progressDone,
                   progressCurrentName, captured, processed, seenHashes,
                   sourcePathsMap, currentIndex, active, resolved, pc, failure,
                   runs>>

\* Mutant: after a cancellation the status handleCancel wrote is left as it is.
FinishRunKeepsCancelStatus ==
    /\ isProcessing
    /\ resolved
    /\ processedFiles' = assignOutputPaths(processed)
    /\ sourcePaths' = sourcePathsMap
    /\ status' = IF aborted THEN status ELSE Status("complete", 0, 0)
    /\ isProcessing' = FALSE
    /\ progressCurrentName' = <<>>
    /\ captured' = NoCapture
    /\ processed' = <<>>
    /\ seenHashes' = EmptyMap
    /\ sourcePathsMap' = EmptyMap
    /\ aborted' = FALSE
    /\ currentIndex' = 0
    /\ active' = 0
    /\ resolved' = FALSE
    /\ pc' = <<>>
    /\ failure' = <<>>
    /\ UNCHANGED <<classifyVars, settingVars, reviewOverrides, storedOverrides, isCancelled,
                   progressTotal, progressDone, runs>>

\* handleRunSort after runWithConcurrency has resolved; when it returns, the
\* values its closure held (processed, seenHashes, the pool's counters) are
\* gone and abortRef.current is null.
FinishRun ==
    /\ isProcessing
    /\ resolved
    /\ processedFiles' = assignOutputPaths(processed)
    /\ sourcePaths' = sourcePathsMap
    /\ status' = IF aborted
                 THEN Status("cancelled", Len(processed), Len(captured.items))
                 ELSE Status("complete", 0, 0)
    /\ isProcessing' = FALSE
    /\ progressCurrentName' = <<>>
    /\ captured' = NoCapture
    /\ processed' = <<>>
    /\ seenHashes' = EmptyMap
    /\ sourcePathsMap' = EmptyMap
    /\ aborted' = FALSE
    /\ currentIndex' = 0
    /\ active' = 0
    /\ resolved' = FALSE
    /\ pc' = <<>>
    /\ failure' = <<>>
    /\ UNCHANGED <<classifyVars, settingVars, reviewOverrides, storedOverrides, isCancelled,
                   progressTotal, progressDone, runs>>

ReviewHashes == {processedFiles[i].hash :
                   i \in {j \in DOMAIN processedFiles :
                            processedFiles[j].decision = "review"}}

ScheduleIds ==
    {ScheduleConfigOf(scheduleConfig).schedules[i].id :
       i \in DOMAIN ScheduleConfigOf(scheduleConfig).schedules}

\* Mutant: entries that are duplicates are left as they are.
OverriddenSkipsDuplicates(file, hash, scheduleId) ==
    IF file.hash # hash \/ file.decision = "duplicate" THEN file
    ELSE IF scheduleId = NULL
    THEN [file EXCEPT !.overrideApplied = JsFalse]
    ELSE [file EXCEPT !.decision = "assigned", !.schedule = scheduleId,
                      !.candidate = UNDEF, !.reason = Reason("review_override"),
                      !.score = SCORE_FLOOR, !.overrideApplied = JsTrue]

\* Mutant: clearing an override sends the entry back to review with score 0.
OverriddenClearResets(file, hash, scheduleId) ==
    IF file.hash # hash THEN file
    ELSE IF scheduleId = NULL
    THEN [file EXCEPT !.overrideApplied = JsFalse, !.decision = "review",
                      !.schedule = UNDEF, !.candidate = Unknown, !.score = 0]
    ELSE [file EXCEPT !.decision = "assigned", !.schedule = scheduleId,
                      !.candidate = UNDEF, !.reason = Reason("review_override"),
                      !.score = SCORE_FLOOR, !.overrideApplied = JsTrue]

\* The entry of handleOverrideChange's map callback.
Overridden(file, hash, scheduleId) ==
    IF file.hash # hash THEN file
    ELSE IF scheduleId = NULL
    THEN [file EXCEPT !.overrideApplied = JsFalse]
    ELSE [file EXCEPT !.decision = "assigned", !.schedule = scheduleId,
                      !.candidate = UNDEF, !.reason = Reason("review_override"),
                      !.score = SCORE_FLOOR, !.overrideApplied = JsTrue]

\* Mutant: every entry of the list is rewritten, whatever its digest.
RecalculatedAll(files, hash, scheduleId) ==
    assignOutputPaths([i \in DOMAIN files |->
                         Overridden(files[i], files[i].hash, scheduleId)])

\* The list handleOverrideChange publishes: every entry of the digest is
\* rewritten and output paths are assigned again over the whole list.
Recalculated(files, hash, scheduleId) ==
    assignOutputPaths([i \in DOMAIN files |-> Overridden(files[i], hash, scheduleId)])

\* handleOverrideChange(hash, scheduleId), called from the override selector
\* of a row of the review table; NULL stands for 'clear'.
handleOverrideChange(hash, scheduleId) ==
    /\ reviewOverrides' = IF scheduleId = NULL THEN MapDelete(reviewOverrides, hash)
                          ELSE MapSet(reviewOverrides, hash, scheduleId)
    /\ storedOverrides' = reviewOverrides'
    /\ processedFiles' = Recalculated(processedFiles, hash, scheduleId)
    /\ UNCHANGED <<classifyVars, settingVars, sourcePaths, status, isProcessing,
                   isCancelled, progressTotal, progressDone, progressCurrentName,
                   runVars>>

OverrideChange ==
    \E hash \in ReviewHashes, scheduleId \in ScheduleIds \cup {NULL} :
        /\ scheduleId = NULL => MapHas(reviewOverrides, hash)
        /\ handleOverrideChange(hash, scheduleId)

Next ==
    \/ StartRun
    \/ \E index \in 1..MaxFiles : HashDone(index)
    \/ \E index \in 1..MaxFiles : ExtractDone(index)
    \/ Cancel
    \/ FinishRun
    \/ OverrideChange

Init ==
    /\ options = [filename |-> <<>>, text |-> <<>>, isPdf |-> FALSE,
                  config |-> compileScheduleConfig(ConfigEmpty),
                  pdfMetrics |-> NoMetrics,
                  scannedThresholds |-> DEFAULT_SCAN_THRESHOLDS]
    /\ result = NotCalled
    /\ AppInit

Spec == Init /\ [][Next]_vars

(***************************************************************************)
(* The rules editor: handleSaveRules, handleResetRules, handleImportRules  *)
(* and the text area.  Here scheduleConfig holds the configuration as the  *)
(* JSON value the editor parsed.                                           *)
(***************************************************************************)
\* JSON.parse(JSON.stringify(value)): a number that is not finite is
\* written as null.
RECURSIVE Stringified(_)
Stringified(value) ==
    CASE value.t = "infinity" -> JNull
      [] value.t = "array" -> JArr([i \in DOMAIN value.a |-> Stringified(value.a[i])])
      [] value.t = "object" -> JObj([k \in DOMAIN value.o |-> Stringified(value.o[k])])
      [] OTHER -> value

\* loadStoredScheduleConfig(): the stored configuration if it passes
\* validation, else null (found = FALSE).
loadStoredScheduleConfig(stored) ==
    IF ~stored.present THEN [found |-> FALSE, config |-> JUndefined]
    ELSE LET v == validateScheduleConfig(stored.value)
         IN  IF v.thrown \/ Len(v.errors) > 0 \/ ~v.hasConfig
             THEN [found |-> FALSE, config |-> JUndefined]
             ELSE [found |-> TRUE, config |-> v.config]

RECURSIVE TermCount(_)
TermCount(schedules) ==
    IF schedules = <<>> THEN 0
    ELSE Len(Prop(Head(schedules), "keywords").a)
         + Len(Prop(Head(schedules), "smallTerms").a)
         + TermCount(Tail(schedules))

summarizeConfigDiff(prev, next) ==
    [schedules |-> <<Len(Prop(prev, "schedules").a), Len(Prop(next, "schedules").a)>>,
     keywords |-> <<TermCount(Prop(prev, "schedules").a),
                    TermCount(Prop(next, "schedules").a)>>,
     rules |-> <<Len(Prop(prev, "filenameRules").a),
                 Len(Prop(next, "filenameRules").a)>>]

\* A RulesAuditEntry; the hash of a configuration stands as its JSON text.
AuditEntry(prevConfig, config) ==
    [summary |-> summarizeConfigDiff(prevConfig, config),
     beforeHash |-> Stringified(prevConfig),
     afterHash |-> Stringified(config)]

RulesInit ==
    /\ options = [filename |-> <<>>, text |-> <<>>, isPdf |-> FALSE,
                  config |-> compileScheduleConfig(ConfigEmpty),
                  pdfMetrics |-> NoMetrics,
                  scannedThresholds |-> DEFAULT_SCAN_THRESHOLDS]
    /\ result = NotCalled
    /\ AppIdleRest
    /\ HelpersIdle
    /\ storedConfig \in StoredChoices
    /\ scheduleConfig = IF loadStoredScheduleConfig(storedConfig).found
                        THEN loadStoredScheduleConfig(storedConfig).config
                        ELSE DefaultConfig
    /\ rulesText = RulesText(TRUE, scheduleConfig)
    /\ rulesErrors = <<>>
    /\ rulesAuditLog = <<>>
    /\ validation = IF storedConfig.present
                    THEN Validated(validateScheduleConfig(storedConfig.value))
                    ELSE NotValidated

\* The text area: onChange sets the text.
EditRules ==
    /\ \E text \in RulesTexts : rulesText' = text
    /\ rulesText' # rulesText
    /\ UNCHANGED <<scheduleConfig, rulesErrors, rulesAuditLog, storedConfig, validation,
                   reviewOverrides, storedOverrides, processedFiles, sourcePaths, status, isProcessing,
                   isCancelled, progressTotal, progressDone, progressCurrentName>>
    /\ UNCHANGED <<classifyVars, selectedFiles, scanThresholds, concurrency, runVars>>

\* handleImportRules: the text of the chosen file replaces the editor's text.
ImportRules ==
    /\ \E text \in RulesTexts : rulesText' = text
    /\ rulesErrors' = <<>>
    /\ UNCHANGED <<scheduleConfig, rulesAuditLog, storedConfig, validation,
                   reviewOverrides, storedOverrides, processedFiles, sourcePaths, status, isProcessing,
                   isCancelled, progressTotal, progressDone, progressCurrentName>>
    /\ UNCHANGED <<classifyVars, selectedFiles, scanThresholds, concurrency, runVars>>

\* Mutant: a rejected save still adopts the parsed text as configuration.
SaveRejectedAdoptsText(errors) ==
    /\ rulesErrors' = errors
    /\ scheduleConfig' = rulesText.value
    /\ UNCHANGED <<rulesAuditLog, storedConfig, status>>

\* The save is rejected: only the errors shown change.
SaveRejected(errors) ==
    /\ rulesErrors' = errors
    /\ UNCHANGED <<scheduleConfig, rulesAuditLog, storedConfig, status>>

\* handleSaveRules.
SaveRules ==
    /\ Len(rulesAuditLog) < MaxAudit
    /\ IF ~rulesText.parses
       THEN /\ validation' = NotValidated
            /\ SaveRejected(<<Err("Invalid JSON", 0)>>)
       ELSE LET v == validateScheduleConfig(rulesText.value)
            IN  /\ validation' = Validated(v)
                /\ IF v.thrown
                   THEN SaveRejected(<<Err("Invalid JSON", 0)>>)
                   ELSE IF ~v.hasConfig \/ Len(v.errors) > 0
                   THEN SaveRejected(IF Len(v.errors) > 0 THEN v.errors
                                     ELSE <<Err("Invalid JSON structure", 0)>>)
                   ELSE /\ storedConfig' = Stored(TRUE, Stringified(v.config))
                        /\ scheduleConfig' = v.config
                        /\ rulesErrors' = <<>>
                        /\ rulesAuditLog' =
                              <<AuditEntry(scheduleConfig, v.config)>> \o rulesAuditLog
                        /\ status' = Status("rules saved", 0, 0)
    /\ UNCHANGED <<rulesText, reviewOverrides, storedOverrides, processedFiles, sourcePaths, isProcessing,
                   isCancelled, progressTotal, progressDone, progressCurrentName>>
    /\ UNCHANGED <<classifyVars, selectedFiles, scanThresholds, concurrency, runVars>>

\* handleResetRules.
ResetRules ==
    /\ storedConfig' = NoStored
    /\ scheduleConfig' = DefaultConfig
    /\ rulesText' = RulesText(TRUE, DefaultConfig)
    /\ rulesErrors' = <<>>
    /\ status' = Status("rules reset", 0, 0)
    /\ UNCHANGED <<rulesAuditLog, validation, reviewOverrides, storedOverrides, processedFiles,
                   sourcePaths, isProcessing, isCancelled, progressTotal, progressDone,
                   progressCurrentName>>
    /\ UNCHANGED <<classifyVars, selectedFiles, scanThresholds, concurrency, runVars>>

RulesNext ==
    \/ EditRules
    \/ ImportRules
    \/ SaveRules
    \/ ResetRules

RulesSpec == RulesInit /\ [][RulesNext]_vars

(***************************************************************************)
(* The settings changed while a run is in flight.  The Save and Reset      *)
(* buttons of the rules editor, the two threshold inputs and the override  *)
(* selectors of the review table (which lists the entries of the previous  *)
(* run until the run in flight publishes its own) stay enabled while       *)
(* isProcessing; the worker closure of handleRunSort reads compiledConfig, *)
(* reviewOverrides and scanThresholds of the render that started the run.  *)
(***************************************************************************)
MaxLiveRuns == 2
MaxLiveFiles == 2
MaxLiveSaves == 1

\* The text the rules editor holds: a configuration of one category.
LiveTexts ==
    { RulesText(TRUE, OneSchedule(RawSchedule(JStr(IdA), JStr(IdA), GoodTerms, JArr(<<>>)))) }

\* The settings a session starts with: no category and an override stored,
\* or the shipped categories and no override.
LiveSetups ==
    {setup \in Setups :
        (setup.config = ConfigEmpty) # (setup.overrides = EmptyMap)}

ThresholdChoices == {SmallThresholds, DEFAULT_SCAN_THRESHOLDS}

LiveInit ==
    /\ options = [filename |-> <<>>, text |-> <<>>, isPdf |-> FALSE,
                  config |-> compileScheduleConfig(ConfigEmpty),
                  pdfMetrics |-> NoMetrics,
                  scannedThresholds |-> DEFAULT_SCAN_THRESHOLDS]
    /\ result = NotCalled
    /\ AppInitRest
    /\ HelpersIdle
    /\ Len(selectedFiles) <= MaxLiveFiles
    /\ concurrency < MaxLiveFiles
    /\ \E setup \in LiveSetups :
          /\ scheduleConfig = ConfigToJson(setup.config)
          /\ reviewOverrides = setup.overrides
    /\ rulesText \in LiveTexts
    /\ rulesErrors = <<>>
    /\ rulesAuditLog = <<>>
    /\ storedConfig = IF scheduleConfig = DefaultConfig THEN NoStored
                      ELSE Stored(TRUE, Stringified(scheduleConfig))
    /\ validation = NotValidated

StartRunLive == StartRunWithin(MaxLiveRuns)

\* onChange of the two inputs 'PDF minimum characters' and 'PDF minimum
\* text items'.
SetScanThresholds ==
    /\ \E thresholds \in ThresholdChoices : scanThresholds' = thresholds
    /\ scanThresholds' # scanThresholds
    /\ UNCHANGED <<classifyVars, selectedFiles, scheduleConfig, concurrency, rulesVars,
                   appVars, runVars>>

\* The settings are changed while the last run is in flight only, the rules
\* saved at most MaxLiveSaves times: what the changes do between runs is
\* explored by Spec and RulesSpec.
LastRunInFlight == isProcessing /\ runs = MaxLiveRuns

OverrideChangeLive == LastRunInFlight /\ OverrideChange
SaveRulesLive == LastRunInFlight /\ Len(rulesAuditLog) < MaxLiveSaves /\ SaveRules
ResetRulesLive == LastRunInFlight /\ ResetRules
SetScanThresholdsLive == LastRunInFlight /\ SetScanThresholds

LiveNext ==
    \/ StartRunLive
    \/ \E index \in 1..MaxLiveFiles : HashDone(index)
    \/ \E index \in 1..MaxLiveFiles : ExtractDone(index)
    \/ FinishRun
    \/ OverrideChangeLive
    \/ SaveRulesLive
    \/ ResetRulesLive
    \/ SetScanThresholdsLive

LiveSpec == LiveInit /\ [][LiveNext]_vars

(***************************************************************************)
(* runWithConcurrency called on any list, the empty one included, with the *)
(* worker of handleRunSort, up to its resolution.  Every started worker    *)
(* settles: the step that takes a worker out of an await is weakly fair.   *)
(***************************************************************************)
PoolInit ==
    /\ options = [filename |-> <<>>, text |-> <<>>, isPdf |-> FALSE,
                  config |-> compileScheduleConfig(ConfigEmpty),
                  pdfMetrics |-> NoMetrics,
                  scannedThresholds |-> DEFAULT_SCAN_THRESHOLDS]
    /\ result = NotCalled
    /\ AppInitRest \/ (AppIdleRest /\ scheduleConfig = DefaultConfig)
    /\ reviewOverrides = EmptyMap
    /\ RulesClosed
    /\ HelpersIdle

\* The call of runWithConcurrency(items, concurrency, worker, isAborted).
CallPool == BeginRun(MaxRuns)

PoolNext ==
    \/ CallPool
    \/ \E index \in 1..MaxFiles : HashDone(index)
    \/ \E index \in 1..MaxFiles : ExtractDone(index)
    \/ Cancel

PcValues == {"queued", "hashing", "extracting", "done"}

\* The worker of a document leaves the await it is at.  The steps of PoolNext
\* that do so are those of HashDone(index) and ExtractDone(index), one of
\* which is enabled whenever the worker is at an await.
Settles(index) ==
    /\ isProcessing
    /\ index \in DOMAIN pc
    /\ pc[index] \in {"hashing", "extracting"}
    /\ \E next \in [DOMAIN pc -> PcValues] :
          /\ next[index] # pc[index]
          /\ pc' = next

PoolSpec ==
    /\ PoolInit
    /\ [][PoolNext]_vars
    /\ \A index \in 1..MaxFiles : WF_pc(Settles(index))

(***************************************************************************)
(* assignOutputPaths called on its own, on a list of entries whose names   *)
(* end in an accepted extension (shouldIncludeFile) and whose folders are  *)
(* those of two categories and of the review of an unknown category.       *)
(***************************************************************************)
MaxPathFiles == 4

Name_a_p == <<"a", ".", "p">>
Name_a_b_p == <<"a", ".", "b", ".", "p">>
Name_a_dup1_p == <<"a", "_", "_", "d", "u", "p", "1", ".", "p">>
Name_a_dup2_p == <<"a", "_", "_", "d", "u", "p", "2", ".", "p">>

PathNames == {Name_a_p, Name_a_b_p, Name_a_dup1_p, Name_a_dup2_p}

PathItem(name) == [name |-> name, relativePath |-> name, content |-> 1]

\* Entries before any output path is assigned: assigned to a category, or
\* sent to review.
PathEntries ==
    { Entry(0, PathItem(name), <<"h">>,
            [decision |-> "assigned", schedule |-> id, candidate |-> UNDEF,
             reason |-> Reason("keyword_match"), score |-> SCORE_FLOOR,
             scores |-> <<>>],
            NoMetrics, UNDEF, UNDEF) : name \in PathNames, id \in {IdA, IdB} }
    \cup
    { Entry(0, PathItem(name), <<"h">>,
            [decision |-> "review", schedule |-> UNDEF, candidate |-> Unknown,
             reason |-> Reason("no_match"), score |-> 0, scores |-> <<>>],
            NoMetrics, UNDEF, UNDEF) : name \in PathNames }

PathInit ==
    /\ options = [filename |-> <<>>, text |-> <<>>, isPdf |-> FALSE,
                  config |-> compileScheduleConfig(ConfigEmpty),
                  pdfMetrics |-> NoMetrics,
                  scannedThresholds |-> DEFAULT_SCAN_THRESHOLDS]
    /\ result = NotCalled
    /\ scheduleConfig = ConfigToJson(ConfigEmpty)
    /\ RulesClosed
    /\ AppIdleRest
    /\ argFiles \in SeqsUpTo(PathEntries, MaxPathFiles)
    /\ returned = NotReturned

\* One call of assignOutputPaths(files).
AssignPaths ==
    /\ ~returned.called
    /\ returned' = Returned(assignOutputPaths(argFiles))
    /\ UNCHANGED <<options, result, calls, argFiles, settingVars, appVars, runVars>>

PathNext == AssignPaths

PathSpec == PathInit /\ [][PathNext]_vars

(***************************************************************************)
(* buildReviewClusters: the review entries grouped by the tokens of their  *)
(* text samples.  A cluster is its id, its tokens (an array, so with       *)
(* repetitions where the code leaves them) and its items.                  *)
(***************************************************************************)
maxTokens == 12

S_cluster == <<"c", "l", "u", "s", "t", "e", "r", "-">>

\* s.split(' ')
RECURSIVE SplitOnSpace(_, _)
SplitOnSpace(s, cur) ==
    IF s = <<>> THEN <<cur>>
    ELSE IF Head(s) = " " THEN <<cur>> \o SplitOnSpace(Tail(s), <<>>)
         ELSE SplitOnSpace(Tail(s), Append(cur, Head(s)))

\* token.length > 3
IsEligible(token) == Len(token) > 3

\* normalizeText(file.textSample ?? '').split(' ').filter(...).slice(0, maxTokens)
TokensOf(file) ==
    SliceTo(SelectSeq(SplitOnSpace(normalizeText(IF file.textSample = UNDEF THEN <<>>
                                                 ELSE file.textSample),
                                   <<>>),
                      IsEligible),
            maxTokens)

\* tokens.filter((token) => cluster.tokens.includes(token))
Overlap(tokens, clusterTokens) ==
    LET Included(token) == token \in Range(clusterTokens)
    IN  SelectSeq(tokens, Included)

\* Array.from(new Set(items)): the first occurrence of each item, in order.
RECURSIVE ArrayFromSet(_, _)
ArrayFromSet(items, seen) ==
    IF items = <<>> THEN <<>>
    ELSE IF Head(items) \in seen THEN ArrayFromSet(Tail(items), seen)
         ELSE <<Head(items)>> \o ArrayFromSet(Tail(items), seen \cup {Head(items)})

\* Mutant: the merged tokens are not cut to maxTokens.
MergedTokensUncapped(clusterTokens, tokens) ==
    ArrayFromSet(clusterTokens \o tokens, {})

\* Array.from(new Set([...cluster.tokens, ...tokens])).slice(0, maxTokens)
MergedTokens(clusterTokens, tokens) ==
    SliceTo(ArrayFromSet(clusterTokens \o tokens, {}), maxTokens)

NewCluster(clusters, tokens, file) ==
    [id |-> S_cluster \o NatToStr(Len(clusters) + 1), tokens |-> tokens,
     items |-> <<file>>]

\* The clusters the inner loop would accept: not those without tokens, and
\* overlap.length >= 2.
Joinable(clusters, tokens) ==
    {c \in DOMAIN clusters :
        /\ Len(clusters[c].tokens) # 0
        /\ Len(Overlap(tokens, clusters[c].tokens)) >= 2}

\* The body of the loop over the files.
ClusterFile(clusters, file) ==
    LET tokens == TokensOf(file)
        joinable == Joinable(clusters, tokens)
    IN  IF Len(tokens) = 0 THEN Append(clusters, NewCluster(clusters, <<>>, file))
        ELSE IF joinable = {} THEN Append(clusters, NewCluster(clusters, tokens, file))
        ELSE LET c == CHOOSE first \in joinable : \A other \in joinable : first <= other
             IN  [clusters EXCEPT
                    ![c] = [id |-> @.id,
                            tokens |-> MergedTokens(@.tokens, tokens),
                            items |-> Append(@.items, file)]]

RECURSIVE ClustersFrom(_, _)
ClustersFrom(files, clusters) ==
    IF files = <<>> THEN clusters
    ELSE ClustersFrom(Tail(files), ClusterFile(clusters, Head(files)))

buildReviewClusters(files) == ClustersFrom(files, <<>>)

MaxClusterFiles == 3

Letters13 == <<"a", "b", "c", "d", "e", "f", "g", "h", "i", "j", "k", "l", "m">>

\* Thirteen words of four letters.
Word(n) == <<"w", "w", "w", Letters13[n]>>

RECURSIVE Words(_, _)
Words(from, to) ==
    IF from > to THEN <<>>
    ELSE IF from = to THEN Word(from)
    ELSE Word(from) \o <<" ">> \o Words(from + 1, to)

\* The text samples of the review entries: none, empty, a word too short,
\* a word repeated, words shared by one or two, in capitals and with
\* punctuation, and samples of twelve and thirteen words.
ClusterSamples ==
    { UNDEF, <<>>, <<"a", "b", " ", "a", "b", "c">>,
      Word(1) \o <<" ">> \o Word(1),
      Words(1, 2),
      <<"W", "W", "W", "A", ",", " ", "-">> \o Word(3),
      Words(1, 3),
      Word(3),
      Words(1, 12),
      Words(1, 2) \o <<"\n">> \o Word(13),
      Words(12, 13),
      Words(1, 13) }

ClusterItem(i) ==
    [name |-> Name_a_pdf, relativePath |-> <<"d">> \o NatToStr(i) \o <<"/">> \o Name_a_pdf,
     content |-> i]

\* A review entry of an unknown category with its text sample.
ClusterEntry(i, sample) ==
    Entry(i, ClusterItem(i), hashArrayBuffer(i),
          [decision |-> "review", schedule |-> UNDEF, candidate |-> Unknown,
           reason |-> Reason("no_match"), score |-> 0, scores |-> <<>>],
          NoMetrics, sample, UNDEF)

ClusterInit ==
    /\ options = [filename |-> <<>>, text |-> <<>>, isPdf |-> FALSE,
                  config |-> compileScheduleConfig(ConfigEmpty),
                  pdfMetrics |-> NoMetrics,
                  scannedThresholds |-> DEFAULT_SCAN_THRESHOLDS]
    /\ result = NotCalled
    /\ scheduleConfig = ConfigToJson(ConfigEmpty)
    /\ RulesClosed
    /\ AppIdleRest
    /\ \E samples \in SeqsUpTo(ClusterSamples, MaxClusterFiles) :
          argFiles = [i \in DOMAIN samples |-> ClusterEntry(i, samples[i])]
    /\ returned = NotReturned

\* One call of buildReviewClusters(files).
BuildClusters ==
    /\ ~returned.called
    /\ returned' = Returned(buildReviewClusters(argFiles))
    /\ UNCHANGED <<options, result, calls, argFiles, settingVars, appVars, runVars>>

ClusterNext == BuildClusters

ClusterSpec == ClusterInit /\ [][ClusterNext]_vars

(***************************************************************************)
(* Properties of the classification engine (ClassifySpec).                 *)
(***************************************************************************)
Called == result.decision # "none"

RuleHits == {i \in DOMAIN options.config.filenameRules :
               RegExpTest(options.config.filenameRules[i].pattern,
                          normalizeText(options.filename))}

FirstHit == CHOOSE i \in RuleHits : \A j \in RuleHits : i <= j

ValidOptions ==
    validateScheduleConfig(
        ConfigToJson(
            [schedules |-> options.config.schedules,
             filenameRules |-> [i \in DOMAIN options.config.filenameRules |->
                                  Rule(options.config.filenameRules[i].pattern.source,
                                       options.config.filenameRules[i].schedule)]])).hasConfig

ConfigIds == {options.config.schedules[i].id : i \in DOMAIN options.config.schedules}

\* What keyword scoring alone would decide on the text.
TextDecision ==
    KeywordDecision(FillScores(<<>>, options.config.schedules,
                               [i \in DOMAIN options.config.schedules |->
                                  scoreSchedule(options.text, options.config.schedules[i])]))

LowChars ==
    /\ options.isPdf
    /\ options.pdfMetrics.present
    /\ options.pdfMetrics.chars < options.scannedThresholds.minChars

KeywordScoringReached ==
    /\ RuleHits = {}
    /\ ~ScannedCheck(options)
    /\ trim(options.text) # <<>>

\* C4: a document whose normalized filename matches a filename rule is
\* assigned, with reason filename_rule, to the category of the first matching
\* rule in declaration order, whatever its text, metrics and keyword scores.
C4_FilenameRulePrecedence ==
    (Called /\ RuleHits # {}) =>
        /\ result.decision = "assigned"
        /\ result.reason.code = "filename_rule"
        /\ result.schedule = options.config.filenameRules[FirstHit].schedule

\* Two rules with different targets match, the text alone would be assigned to
\* another category than the first rule's, and the PDF has a low text layer.
C4_Witness ==
    /\ Called
    /\ Cardinality(RuleHits) = 2
    /\ TextDecision.decision = "assigned"
    /\ TextDecision.schedule # options.config.filenameRules[FirstHit].schedule
    /\ LowChars
    /\ options.pdfMetrics.pagesSampled > 0
    /\ result.schedule = options.config.filenameRules[FirstHit].schedule

\* C5 as stated: a PDF whose sampled character count is below the minimum is
\* always routed to review with reason likely_scanned_pdf, candidate Unknown
\* and score 0.
C5_Original ==
    (Called /\ LowChars) =>
        /\ result.decision = "review"
        /\ result.reason.code = "likely_scanned_pdf: low_text_layer"
        /\ result.candidate = Unknown
        /\ result.score = 0

\* C5 amended: a PDF that matches no filename rule, with metrics supplied and
\* at least one page sampled, whose sampled character count is below the
\* minimum is routed to review with reason likely_scanned_pdf, candidate
\* Unknown and score 0, even when its text would score at or above the floor.
C5_ScannedPrecedence ==
    (Called /\ LowChars /\ RuleHits = {} /\ options.pdfMetrics.pagesSampled > 0) =>
        /\ result.decision = "review"
        /\ result.reason.code = "likely_scanned_pdf: low_text_layer"
        /\ result.reason.detail = <<options.pdfMetrics.chars,
                                    options.pdfMetrics.textItems,
                                    options.pdfMetrics.pagesSampled>>
        /\ result.candidate = Unknown
        /\ result.score = 0

\* The text alone would be assigned by keyword score, only the character
\* count is low, and the document went to review as likely scanned.
C5_Witness ==
    /\ Called
    /\ LowChars
    /\ RuleHits = {}
    /\ options.pdfMetrics.pagesSampled > 0
    /\ options.pdfMetrics.textItems >= options.scannedThresholds.minTextItems
    /\ TextDecision.decision = "assigned"
    /\ result.decision = "review"
    /\ result.candidate = Unknown

\* The highest value of a score vector, and the second highest (the highest
\* of the vector without one entry holding the best; 0 for a single entry).
MaxOf(S) == CHOOSE x \in S : \A y \in S : x >= y
BestOf(scores) == MaxOf({scores[i][2] : i \in DOMAIN scores})
RunnerUpOf(scores) ==
    IF Len(scores) < 2 THEN 0
    ELSE LET top == CHOOSE i \in DOMAIN scores : scores[i][2] = BestOf(scores)
         IN  MaxOf({scores[i][2] : i \in DOMAIN scores \ {top}})
MarginOf(scores) == BestOf(scores) - RunnerUpOf(scores)

\* C6: when keyword scoring is reached (at least one category), the result is
\* review, reason low_confidence, candidate a category holding the best score,
\* if best < 18 or best - runnerUp < 6, and otherwise assigned to a category
\* holding the best score with reason keyword_score; so a keyword_score result
\* has score >= 18 and margin >= 6.
C6_KeywordDecision ==
    /\ (Called /\ KeywordScoringReached /\ options.config.schedules # <<>>) =>
          LET best == BestOf(result.scores)
              margin == MarginOf(result.scores)
          IN  /\ result.score = best
              /\ IF best < SCORE_FLOOR \/ margin < LOW_CONFIDENCE_MARGIN
                 THEN /\ result.decision = "review"
                      /\ result.reason.code = "low_confidence"
                      /\ ObjHas(result.scores, result.candidate)
                      /\ ObjGet(result.scores, result.candidate) = best
                 ELSE /\ result.decision = "assigned"
                      /\ result.reason.code = "keyword_score"
                      /\ ObjHas(result.scores, result.schedule)
                      /\ ObjGet(result.scores, result.schedule) = best
    /\ (Called /\ result.reason.code = "keyword_score") =>
          /\ result.score >= SCORE_FLOOR
          /\ MarginOf(result.scores) >= LOW_CONFIDENCE_MARGIN

\* The example of the specification: A = 20, B = 16 gives review, candidate A.
C6_Witness ==
    /\ Called
    /\ KeywordScoringReached
    /\ result.scores = <<<<IdA, 20>>, <<IdB, 16>>>>
    /\ result.decision = "review"
    /\ result.candidate = IdA
    /\ result.reason.code = "low_confidence"

\* C7: classifyDocument returns on every input; with no category configured,
\* non-empty text and no filename-rule match it returns review, candidate
\* Unknown, reason low_confidence.
C7_Total ==
    Called =>
        /\ result.decision \in {"assigned", "review"}
        /\ (options.config.schedules = <<>> /\ KeywordScoringReached) =>
              /\ result.decision = "review"
              /\ result.candidate = Unknown
              /\ result.reason.code = "low_confidence"

\* C8: for a configuration that passes validateScheduleConfig, every result
\* returned is assigned or review and its score vector has exactly one entry
\* per configured category, each >= 0.
C8_ScoresExhaustiveNonNegative ==
    (Called /\ ValidOptions /\ result.decision # "throw") =>
        /\ result.decision \in {"assigned", "review"}
        /\ ObjKeys(result.scores) = ConfigIds
        /\ Len(result.scores) = Cardinality(ConfigIds)
        /\ \A i \in DOMAIN result.scores : result.scores[i][2] >= 0

(***************************************************************************)
(* Properties of the processing pipeline (Spec).                           *)
(***************************************************************************)
RunEnded == isProcessing /\ resolved

Published == ~isProcessing /\ runs > 0

FirstSeenOf(entries, hash) ==
    {i \in DOMAIN entries : entries[i].hash = hash /\ entries[i].decision # "duplicate"}

\* C1: in a run, whatever the concurrency limit and the interleaving of the
\* completions of hashing and extraction, the entries of one digest hold
\* exactly one entry that is assigned or review, the others being duplicates:
\* two documents of one digest never both register as first-seen.
C1_OneFirstSeenPerDigest ==
    \A i \in DOMAIN processed :
        Cardinality(FirstSeenOf(processed, processed[i].hash)) = 1

PathsOf(files) == {<<files[i].relativePath, files[i].outputPath>> : i \in DOMAIN files}

\* C2: the output paths a run publishes are those of collision disambiguation
\* applied over the results sorted by source path, whatever the concurrency
\* limit and the order in which the workers completed.
C2_PathsInSourcePathOrder ==
    [][(isProcessing /\ ~isProcessing') =>
          PathsOf(processedFiles') =
             PathsOf(assignOutputPaths(SortByRelativePath(processedFiles')))]_vars

\* C3: in every published state of the processed-file list (after a completed
\* or cancelled run and after any override set or clear), every entry has a
\* non-empty output path and no two entries have the same output path.
C3_UniqueOutputPaths ==
    \A i \in DOMAIN processedFiles :
        /\ processedFiles[i].outputPath # <<>>
        /\ \A j \in DOMAIN processedFiles :
              i # j => processedFiles[i].outputPath # processedFiles[j].outputPath

\* A stored override of a synthetic digest was cleared and an override of a
\* digest was set after the run, and an entry's name had to be disambiguated.
C3_Witness ==
    /\ Published
    /\ MapHas(reviewOverrides, hashArrayBuffer(1))
    /\ ~MapHas(reviewOverrides, S_error \o NatToStr(0))
    /\ MapHas(reviewOverrides, hashArrayBuffer(2))
    /\ \E i \in DOMAIN processedFiles :
          /\ processedFiles[i].overrideApplied = JsTrue
          /\ processedFiles[i].outputPath # buildBaseOutputPath(processedFiles[i])

\* C9: at the end of a run every duplicate entry has reason sha256_duplicate
\* and the schedule, candidate and score of the first-seen entry of its
\* digest, the earliest non-duplicate entry with that digest.
C9_DuplicateCarriesFirstSeen ==
    RunEnded =>
        \A i \in DOMAIN processed :
            processed[i].decision = "duplicate" =>
                LET firsts == FirstSeenOf(processed, processed[i].hash)
                IN  /\ processed[i].reason.code = "sha256_duplicate"
                    /\ firsts # {}
                    /\ LET first == CHOOSE j \in firsts : \A k \in firsts : j <= k
                       IN  /\ processed[i].schedule = processed[first].schedule
                           /\ processed[i].candidate = processed[first].candidate
                           /\ processed[i].score = processed[first].score

EntriesOf(index) == {i \in DOMAIN processed : processed[i].file = index}

\* C10: a document whose hashing, extraction or classification raised has
\* exactly one entry: review, candidate Unknown, reason pdf_parse_error for an
\* extraction failure and processing_error with the synthetic digest
\* error-<index> otherwise; every document of a run that was not cancelled has
\* exactly one entry, and the run ends with status complete, never failed.
C10_FailureIsolated ==
    /\ isProcessing =>
          \A index \in DOMAIN pc :
              /\ Cardinality(EntriesOf(index)) = IF pc[index] = "done" THEN 1 ELSE 0
              /\ (pc[index] = "done" /\ failure[index] # "none") =>
                    LET entry == processed[CHOOSE i \in EntriesOf(index) : TRUE]
                    IN  /\ entry.decision = "review"
                        /\ entry.candidate = Unknown
                        /\ IF failure[index] = "extract"
                           THEN /\ entry.reason.code = "pdf_parse_error"
                                /\ entry.hash = hashArrayBuffer(captured.items[index].content)
                           ELSE /\ entry.reason.code = "processing_error"
                                /\ entry.hash = S_error \o NatToStr(index - 1)
    /\ (RunEnded /\ ~aborted) => \A index \in DOMAIN pc : pc[index] = "done"
    /\ status.kind # "failed"
    /\ (Published /\ ~isCancelled) =>
          /\ status.kind = "complete"
          /\ {processedFiles[i].file : i \in DOMAIN processedFiles} = DOMAIN selectedFiles
          /\ Len(processedFiles) = Len(selectedFiles)

\* A run that was not cancelled ended with one document whose hashing raised,
\* one whose classification raised and one processed without failure.
C10_Witness ==
    /\ RunEnded
    /\ ~aborted
    /\ \E i, j, k \in DOMAIN failure :
          /\ failure[i] = "hash"
          /\ failure[j] = "classify"
          /\ failure[k] = "none"
          /\ processed[CHOOSE n \in EntriesOf(k) : TRUE].decision # "duplicate"

InFlight == {i \in DOMAIN pc : pc[i] \in {"hashing", "extracting"}}

Started == {i \in DOMAIN pc : pc[i] # "queued"}

\* C11: once the cancellation signal is set, a document that has not been
\* started is never started; the documents in flight run to completion, the
\* run ends only when none is in flight, and the published list holds the
\* entry of every document that was started.
C11_CancelStopsStarts ==
    /\ [](RunEnded => (InFlight = {} /\ \A i \in Started : Cardinality(EntriesOf(i)) = 1))
    /\ [][(isProcessing /\ aborted) =>
             IF isProcessing'
             THEN \A i \in DOMAIN pc : pc[i] = "queued" => pc'[i] = "queued"
             ELSE {processedFiles'[k].file : k \in DOMAIN processedFiles'} = Started]_vars

\* A cancelled run ended with a document never started and with an entry of
\* a document that completed after the cancellation.
C11_Witness ==
    /\ RunEnded
    /\ aborted
    /\ status.kind = "cancelled"
    /\ Len(processed) > status.n
    /\ \E i \in DOMAIN pc : pc[i] = "queued"

\* C12: at every moment of a run at most N documents are in flight, N the
\* concurrency limit; documents are started in input-index order and each is
\* started at most once.
C12_BoundedPool ==
    /\ [](isProcessing =>
            /\ Cardinality(InFlight) <= captured.concurrency
            /\ active = Cardinality(InFlight)
            /\ Started = 1..currentIndex
            /\ \A i \in DOMAIN pc : Cardinality(EntriesOf(i)) <= 1)
    /\ [][(isProcessing /\ isProcessing') =>
             \A i \in DOMAIN pc :
                 /\ (pc[i] # "queued") => (pc'[i] # "queued")
                 /\ (pc'[i] = "hashing" /\ pc[i] # "hashing") => pc[i] = "queued"
                 /\ (pc[i] = "done") => (pc'[i] = "done")]_vars

\* The pool is full with limit 2 and the third document was started after
\* one of the first two completed.
C12_Witness ==
    /\ isProcessing
    /\ captured.concurrency = 2
    /\ Cardinality(InFlight) = 2
    /\ currentIndex = 3
    /\ pc[3] \in {"hashing", "extracting"}
    /\ \E i \in 1..2 : pc[i] = "done"

DigestOf(entry) == hashArrayBuffer(captured.items[entry.file].content)

\* The score vector with the floor on one category and 0 on the others.
FloorVector(scheduleId) ==
    [i \in DOMAIN captured.config.schedules |->
        <<captured.config.schedules[i].id,
          IF captured.config.schedules[i].id = scheduleId THEN SCORE_FLOOR ELSE 0>>]

\* C13: during a run, a document that is not a duplicate and whose digest has
\* an entry in the override map is not extracted or classified: its entry is
\* assigned to the override's category with reason review_override, score 18
\* and a score vector holding 18 on that category and 0 on every other
\* configured category.
C13_OverrideShortCircuit ==
    isProcessing =>
        \A i \in DOMAIN processed :
            LET entry == processed[i]
            IN  (/\ entry.decision # "duplicate"
                 /\ failure[entry.file] = "none"
                 /\ MapHas(captured.overrides, DigestOf(entry))) =>
                    LET target == captured.overrides[DigestOf(entry)]
                    IN  /\ entry.decision = "assigned"
                        /\ entry.schedule = target
                        /\ entry.reason.code = "review_override"
                        /\ entry.score = SCORE_FLOOR
                        /\ entry.overrideApplied = JsTrue
                        /\ entry.pdfMetrics = NoMetrics
                        /\ entry.scores = FloorVector(target)
                        /\ ObjHas(entry.scores, target)
                        /\ ObjGet(entry.scores, target) = SCORE_FLOOR

IsDigest(hash) == hash \in {hashArrayBuffer(content) : content \in Contents}

\* C14: overrides are idempotent and order-independent: applying an override
\* (digest, category) to the published list twice gives exactly the list of
\* applying it once, and whatever the order in which the documents were
\* processed, every document whose digest has an override ends with the
\* override's category, in a run and in the published list.
C14_OverrideIdempotent ==
    /\ [](Published =>
            \A i \in DOMAIN processedFiles, scheduleId \in ScheduleIds :
                LET hash == processedFiles[i].hash
                    once == Recalculated(processedFiles, hash, scheduleId)
                IN  /\ Recalculated(once, hash, scheduleId) = once
                    /\ \A j \in DOMAIN once :
                          once[j].hash = hash => once[j].schedule = scheduleId)
    /\ [](isProcessing =>
            \A i \in DOMAIN processed :
                (failure[processed[i].file] = "none"
                 /\ MapHas(captured.overrides, DigestOf(processed[i]))) =>
                    processed[i].schedule = captured.overrides[DigestOf(processed[i])])
    /\ [][\A hash \in DOMAIN reviewOverrides' :
             (~MapHas(reviewOverrides, hash)
              \/ reviewOverrides[hash] # reviewOverrides'[hash]) =>
                 \A j \in DOMAIN processedFiles' :
                     processedFiles'[j].hash = hash =>
                         processedFiles'[j].schedule = reviewOverrides'[hash]]_vars

\* An override was set after the run on a digest shared by an extracted
\* document and a duplicate of it, and both carry the override's category.
C14_Witness ==
    /\ Published
    /\ reviewOverrides = MapSet(EmptyMap, hashArrayBuffer(2), IdB)
    /\ \E i, j \in DOMAIN processedFiles :
          /\ processedFiles[i].hash = hashArrayBuffer(2)
          /\ processedFiles[j].hash = hashArrayBuffer(2)
          /\ processedFiles[i].pdfMetrics.present
          /\ ~processedFiles[j].pdfMetrics.present
          /\ j < i
          /\ processedFiles[i].schedule = IdB
          /\ processedFiles[j].schedule = IdB
          /\ processedFiles[i].overrideApplied = JsTrue
          /\ processedFiles[j].overrideApplied = JsTrue

(***************************************************************************)
(* Properties of the rules editor (RulesSpec).                             *)
(***************************************************************************)
FiniteNumber(value) == value.t = "number"

NonEmptyString(value) == value.t = "string" /\ value.s # <<>>

TermsValid(list) ==
    /\ list.t = "array"
    /\ \A i \in DOMAIN list.a :
          /\ Prop(list.a[i], "term").t = "string"
          /\ FiniteNumber(Prop(list.a[i], "weight"))

\* The structural checks: category and rule arrays present; every category
\* with a non-empty id and label and array-typed term lists whose entries
\* have a string term and a finite numeric weight; every rule with a
\* non-empty pattern that compiles and a non-empty target.
StructurallyValid(config) ==
    /\ config.t = "object"
    /\ Prop(config, "schedules").t = "array"
    /\ Prop(config, "filenameRules").t = "array"
    /\ \A i \in DOMAIN Prop(config, "schedules").a :
          LET schedule == Prop(config, "schedules").a[i]
          IN  /\ schedule.t = "object"
              /\ NonEmptyString(Prop(schedule, "id"))
              /\ NonEmptyString(Prop(schedule, "label"))
              /\ TermsValid(Prop(schedule, "keywords"))
              /\ TermsValid(Prop(schedule, "smallTerms"))
    /\ \A i \in DOMAIN Prop(config, "filenameRules").a :
          LET rule == Prop(config, "filenameRules").a[i]
          IN  /\ rule.t = "object"
              /\ NonEmptyString(Prop(rule, "pattern"))
              /\ ValidRegExp(Prop(rule, "pattern").s)
              /\ NonEmptyString(Prop(rule, "schedule"))

\* C15: validateScheduleConfig returns on every input, either a configuration
\* with an empty error list or no configuration with a non-empty error list,
\* and a configuration it returns passes every structural check.
C15_NeverPartial ==
    validation.called =>
        /\ ~validation.thrown
        /\ IF validation.hasConfig
           THEN validation.errors = <<>> /\ StructurallyValid(validation.config)
           ELSE validation.errors # <<>>

\* The save of the editor's text is rejected: the text does not parse, or
\* validation raised, returned errors or returned no configuration.
SaveFails ==
    \/ ~rulesText.parses
    \/ LET v == validateScheduleConfig(rulesText.value)
       IN  v.thrown \/ ~v.hasConfig \/ v.errors # <<>>

\* C16: a save that fails (unparsable JSON or a validation error) leaves the
\* active configuration, the stored configuration and the audit log
\* unchanged and shows a non-empty list of errors, the errors of validation
\* when it returned some; the configuration changes only on a save that
\* passed validation or on a reset to defaults.
C16_FailedSaveChangesNothing ==
    [][/\ (SaveRules /\ SaveFails) =>
             /\ scheduleConfig' = scheduleConfig
             /\ storedConfig' = storedConfig
             /\ rulesAuditLog' = rulesAuditLog
             /\ rulesErrors' # <<>>
             /\ (rulesText.parses
                 /\ validateScheduleConfig(rulesText.value).errors # <<>>) =>
                    rulesErrors' = validateScheduleConfig(rulesText.value).errors
       /\ (\/ scheduleConfig' # scheduleConfig
           \/ storedConfig' # storedConfig
           \/ rulesAuditLog' # rulesAuditLog) =>
              (ResetRules \/ (SaveRules /\ ~SaveFails))]_vars

\* After a save that passed, a save of a text with validation errors was
\* rejected: its errors are shown and the saved configuration is active and
\* stored.
C16_Witness ==
    /\ Len(rulesAuditLog) = 1
    /\ rulesText.parses
    /\ validation = Validated(validateScheduleConfig(rulesText.value))
    /\ validation.errors # <<>>
    /\ rulesErrors = validation.errors
    /\ scheduleConfig # DefaultConfig
    /\ storedConfig = Stored(TRUE, scheduleConfig)
    /\ rulesAuditLog[1].afterHash = scheduleConfig

\* C17: classifyDocument is deterministic: two calls on one configuration
\* with the same filename, text, isPdf, metrics and thresholds return the
\* same result (decision, category, candidate, reason, score and score
\* vector), whatever calls were made in between.
C17_Deterministic ==
    \A i \in DOMAIN calls : \A j \in DOMAIN calls :
        calls[i].input = calls[j].input => calls[i].result = calls[j].result

\* A call decided by a filename rule, a call on another input decided by
\* keyword score, then the first input again.
C17_Witness ==
    /\ Len(calls) = 3
    /\ calls[1].input = calls[3].input
    /\ calls[1].result.reason = Reason("filename_rule")
    /\ calls[2].result.reason = Reason("keyword_score")
    /\ calls[3].result = calls[1].result

\* C18: when no filename rule matches and scanned detection does not fire, a
\* document whose text trims to empty (every non-PDF file, whose text is
\* the empty string) goes to review with candidate Unknown, reason
\* no_text_or_filename_rule, score 0 and a score vector holding every
\* configured category with 0.
C18_NoTextToReview ==
    (Called /\ RuleHits = {} /\ ~ScannedCheck(options) /\ trim(options.text) = <<>>) =>
        /\ result.decision = "review"
        /\ result.schedule = UNDEF
        /\ result.candidate = Unknown
        /\ result.reason = Reason("no_text_or_filename_rule")
        /\ result.score = 0
        /\ ObjKeys(result.scores) = ConfigIds
        /\ \A i \in DOMAIN result.scores : result.scores[i][2] = 0

\* A file that is not a PDF, with the empty text and a name no rule matches,
\* under two categories and a rule: it went to review for lack of text.
C18_Witness ==
    /\ Called
    /\ ~options.isPdf
    /\ options.text = <<>>
    /\ options.config.filenameRules # <<>>
    /\ RuleHits = {}
    /\ Cardinality(ConfigIds) = 2
    /\ result.reason = Reason("no_text_or_filename_rule")
    /\ Len(result.scores) = 2

\* C19: on a filename-rule match under a configuration that passes
\* validation, the result has score 18 and its score vector holds 18 on the
\* target category of the matched rule and 0 on every other configured
\* category.
C19_FilenameRuleVector ==
    (Called /\ RuleHits # {} /\ ValidOptions) =>
        LET target == options.config.filenameRules[FirstHit].schedule
        IN  /\ result.score = SCORE_FLOOR
            /\ ObjHas(result.scores, target)
            /\ ObjGet(result.scores, target) = SCORE_FLOOR
            /\ \A id \in ConfigIds \ {target} :
                   ObjHas(result.scores, id) /\ ObjGet(result.scores, id) = 0

\* C20: at the end of a run every entry of the result set, whether
\* classified, assigned by an override, a duplicate, a pdf_parse_error or a
\* processing_error, has a score vector holding every configured category
\* with a value of at least 0.
C20_EveryEntryScored ==
    RunEnded =>
        \A i \in DOMAIN processed :
            /\ \A k \in DOMAIN captured.config.schedules :
                   ObjHas(processed[i].scores, captured.config.schedules[k].id)
            /\ \A k \in DOMAIN processed[i].scores : processed[i].scores[k][2] >= 0

\* The categories of the configuration holding the highest score of the
\* result, by their position in the category list.
TiedForBest ==
    {i \in DOMAIN options.config.schedules :
       ObjGet(result.scores, options.config.schedules[i].id) = BestOf(result.scores)}

TopCategory ==
    IF result.decision = "assigned" THEN result.schedule ELSE result.candidate

\* C21: in keyword scoring, when two or more categories tie for the highest
\* score, the top category (the assigned category or the review candidate)
\* is the tied category declared earliest in the category list of the
\* configuration.
C21_TieByDeclarationOrder ==
    (Called /\ KeywordScoringReached /\ options.config.schedules # <<>>) =>
        TopCategory =
            options.config.schedules[CHOOSE i \in TiedForBest :
                                        \A j \in TiedForBest : i <= j].id

\* The result is the review of scanned detection.
LikelyScanned == result.reason.code = "likely_scanned_pdf: low_text_layer"

\* C22: when no filename rule matches, scanned detection fires exactly when
\* the document is a PDF, metrics are supplied, pagesSampled > 0 and chars <
\* minChars or textItems < minTextItems; the result is then review, Unknown,
\* score 0 and every category 0, whatever the keyword scores.  When metrics
\* are absent or pagesSampled = 0, the empty-text and keyword steps decide.
C22_ScannedDetection ==
    (Called /\ RuleHits = {}) =>
        /\ LikelyScanned <=>
              /\ options.isPdf
              /\ options.pdfMetrics.present
              /\ options.pdfMetrics.pagesSampled > 0
              /\ \/ options.pdfMetrics.chars < options.scannedThresholds.minChars
                 \/ options.pdfMetrics.textItems < options.scannedThresholds.minTextItems
        /\ LikelyScanned =>
              /\ result.decision = "review"
              /\ result.candidate = Unknown
              /\ result.score = 0
              /\ ObjKeys(result.scores) = ConfigIds
              /\ \A i \in DOMAIN result.scores : result.scores[i][2] = 0
        /\ (~options.pdfMetrics.present \/ options.pdfMetrics.pagesSampled = 0) =>
              IF trim(options.text) = <<>>
              THEN result.reason = Reason("no_text_or_filename_rule")
              ELSE result = TextDecision

\* Only the text-item count is low, the text alone would be assigned by
\* keyword score, and the PDF went to review as likely scanned.
C22_Witness ==
    /\ Called
    /\ RuleHits = {}
    /\ options.isPdf
    /\ options.pdfMetrics.present
    /\ options.pdfMetrics.pagesSampled > 0
    /\ options.pdfMetrics.chars >= options.scannedThresholds.minChars
    /\ options.pdfMetrics.textItems < options.scannedThresholds.minTextItems
    /\ TextDecision.decision = "assigned"
    /\ LikelyScanned
    /\ Len(result.scores) = 2

\* C23: output paths are assigned strictly after all workers have completed:
\* runWithConcurrency does not resolve while a started document is in
\* flight, in a normal run and after cancellation; during the run no entry
\* has an output path, and the list published is the path assignment over
\* the entries of the run, made when no worker is active.
C23_PathsAfterAllWorkers ==
    /\ [](isProcessing =>
            /\ resolved => (active = 0 /\ InFlight = {})
            /\ \A i \in DOMAIN processed : processed[i].outputPath = <<>>)
    /\ [][(isProcessing /\ ~isProcessing') =>
             /\ resolved
             /\ active = 0
             /\ InFlight = {}
             /\ processedFiles' = assignOutputPaths(processed)]_vars

\* A run that was not cancelled, with two workers at a time, has resolved
\* with every document done, and its list is about to get its paths.
C23_Witness ==
    /\ RunEnded
    /\ ~aborted
    /\ captured.concurrency = 2
    /\ Len(processed) = Len(captured.items)
    /\ Len(processed) >= 3
    /\ \A i \in DOMAIN pc : pc[i] = "done"

Finished == {i \in DOMAIN pc : pc[i] = "done"}

\* C24: during a run the completed count never decreases, goes up by exactly
\* one when a started document finishes (classified, duplicate or failed),
\* never exceeds the total, and equals the total at the end of a run that
\* was not cancelled.
C24_CompletedCount ==
    /\ [](isProcessing =>
            /\ progressDone = Cardinality(Finished)
            /\ progressDone <= progressTotal
            /\ progressTotal = Len(captured.items)
            /\ (resolved /\ ~aborted) => progressDone = progressTotal)
    /\ [][(isProcessing /\ isProcessing') =>
             /\ progressDone' >= progressDone
             /\ progressDone' - progressDone =
                    Cardinality({i \in DOMAIN pc : pc[i] # "done" /\ pc'[i] = "done"})
             /\ progressDone' - progressDone <= 1]_vars

\* A run that was not cancelled ended with a failed document and a
\* duplicate among its three documents, all three counted.
C24_Witness ==
    /\ RunEnded
    /\ ~aborted
    /\ progressDone = 3
    /\ progressTotal = 3
    /\ \E i \in DOMAIN failure : failure[i] # "none"
    /\ \E i \in DOMAIN processed : processed[i].decision = "duplicate"

\* C25: whenever a worker is in flight during a run, the current-document
\* name shown is the source path of a document that some worker is
\* processing at that moment.
C25_CurrentNameInFlight ==
    (isProcessing /\ InFlight # {}) =>
        \E i \in InFlight : captured.items[i].relativePath = progressCurrentName

\* C26: the list published by a cancelled run holds exactly one entry for
\* each document started before the cancellation and none for a document
\* never started, every entry has an output path, and the final status is
\* Cancelled at N/M, N the number of entries and M the number of selected
\* documents.
C26_CancelledRunPublished ==
    [][(isProcessing /\ ~isProcessing' /\ aborted) =>
          /\ Len(processedFiles') = Cardinality(Started)
          /\ \A i \in Started :
                 Cardinality({k \in DOMAIN processedFiles' :
                                processedFiles'[k].file = i}) = 1
          /\ \A k \in DOMAIN processedFiles' :
                 /\ processedFiles'[k].file \in Started
                 /\ processedFiles'[k].outputPath # <<>>
          /\ status' = Status("cancelled", Len(processedFiles'), Len(selectedFiles))]_vars

\* A cancelled run has published two entries of three selected documents,
\* one of them completed after the cancellation.
C26_Witness ==
    /\ Published
    /\ status = Status("cancelled", 2, 3)
    /\ Len(processedFiles) = 2
    /\ progressDone = 2
    /\ isCancelled

\* The digests whose override is set, or set to another category, by a step.
OverrideSet ==
    {hash \in DOMAIN reviewOverrides' :
       ~MapHas(reviewOverrides, hash) \/ reviewOverrides[hash] # reviewOverrides'[hash]}

\* C27: setting an override of digest H to category X on the published list
\* makes every entry of digest H assigned to X, without candidate, with
\* reason review_override and score 18; every entry of another digest keeps
\* all its fields but possibly its output path; no entry's digest, name or
\* source path changes and no entry is added or removed.
C27_OverrideSetFrame ==
    [][\A hash \in OverrideSet :
          /\ Len(processedFiles') = Len(processedFiles)
          /\ \A k \in DOMAIN processedFiles :
                 LET old == processedFiles[k]
                     new == processedFiles'[k]
                 IN  /\ new.hash = old.hash
                     /\ new.name = old.name
                     /\ new.relativePath = old.relativePath
                     /\ new.file = old.file
                     /\ IF old.hash = hash
                        THEN /\ new.decision = "assigned"
                             /\ new.schedule = reviewOverrides'[hash]
                             /\ new.candidate = UNDEF
                             /\ new.reason = Reason("review_override")
                             /\ new.score = SCORE_FLOOR
                        ELSE new = [old EXCEPT !.outputPath = new.outputPath]]_vars

\* The entry of a document that failed was overridden after the run (only
\* handleOverrideChange gives that entry the reason review_override), next
\* to a review entry of another digest with the same file name.
C27_Witness ==
    /\ Published
    /\ \E k, j \in DOMAIN processedFiles :
          /\ processedFiles[k].hash = S_error \o NatToStr(0)
          /\ processedFiles[k].reason = Reason("review_override")
          /\ processedFiles[k].schedule = IdB
          /\ MapHas(reviewOverrides, processedFiles[k].hash)
          /\ processedFiles[j].hash # processedFiles[k].hash
          /\ processedFiles[j].name = processedFiles[k].name
          /\ processedFiles[j].decision = "review"

\* The digests whose override is removed by a step.
OverrideCleared == {hash \in DOMAIN reviewOverrides : ~MapHas(reviewOverrides', hash)}

\* C28: clearing the override of digest H removes H from the override map in
\* memory and from the stored one, leaving the other overrides, and sets
\* the override flag of the entries of digest H to false; the decision,
\* category, candidate, reason and score of every entry stay as they were,
\* also when the clear is applied to a digest whose entries an override had
\* assigned.
C28_OverrideClearFrame ==
    /\ [](Published =>
            \A i \in DOMAIN processedFiles :
                LET cleared == Recalculated(processedFiles, processedFiles[i].hash, NULL)
                IN  \A k \in DOMAIN processedFiles :
                        /\ cleared[k].decision = processedFiles[k].decision
                        /\ cleared[k].schedule = processedFiles[k].schedule
                        /\ cleared[k].candidate = processedFiles[k].candidate
                        /\ cleared[k].reason = processedFiles[k].reason
                        /\ cleared[k].score = processedFiles[k].score)
    /\ [][\A hash \in OverrideCleared :
          /\ ~MapHas(storedOverrides', hash)
          /\ storedOverrides' = reviewOverrides'
          /\ \A other \in DOMAIN reviewOverrides \ {hash} :
                 /\ MapHas(reviewOverrides', other)
                 /\ reviewOverrides'[other] = reviewOverrides[other]
          /\ Len(processedFiles') = Len(processedFiles)
          /\ \A k \in DOMAIN processedFiles :
                 LET old == processedFiles[k]
                     new == processedFiles'[k]
                 IN  /\ new.decision = old.decision
                     /\ new.schedule = old.schedule
                     /\ new.candidate = old.candidate
                     /\ new.reason = old.reason
                     /\ new.score = old.score
                     /\ new.overrideApplied =
                           IF old.hash = hash THEN JsFalse ELSE old.overrideApplied]_vars

\* The override stored for the entry of a failed document was cleared after
\* the run: the entry is still the review the run gave and its flag is
\* false, and neither map holds its digest.
C28_Witness ==
    /\ Published
    /\ \E k \in DOMAIN processedFiles :
          /\ processedFiles[k].overrideApplied = JsFalse
          /\ processedFiles[k].decision = "review"
          /\ processedFiles[k].reason = Reason("processing_error")
          /\ ~MapHas(reviewOverrides, processedFiles[k].hash)
          /\ ~MapHas(storedOverrides, processedFiles[k].hash)
          /\ reviewOverrides # EmptyMap

\* C29: once the pipeline has published an entry, its digest and the reason
\* its classification gave never change, whatever overrides are set and
\* cleared afterwards.
C29_DigestAndReasonImmutable ==
    [][(Published /\ ~isProcessing') =>
          /\ Len(processedFiles') = Len(processedFiles)
          /\ \A k \in DOMAIN processedFiles :
                 /\ processedFiles'[k].hash = processedFiles[k].hash
                 /\ processedFiles'[k].reason = processedFiles[k].reason]_vars

\* The entry a worker gives for the document at position index, first of its
\* digest, when nothing fails, under a configuration, an override map and
\* scan thresholds.
EntryUnder(index, config, overrides, thresholds) ==
    LET item == captured.items[index]
        hash == hashArrayBuffer(item.content)
        pdfMetrics == IF isPdfFile(item.name) THEN extractPdfText(item.content)
                      ELSE NoMetrics
        text == IF isPdfFile(item.name) THEN pdfMetrics.text ELSE <<>>
        classification ==
            classifyDocument([filename |-> item.name, text |-> text,
                              isPdf |-> isPdfFile(item.name), config |-> config,
                              pdfMetrics |-> pdfMetrics,
                              scannedThresholds |-> thresholds])
    IN  IF MapHas(overrides, hash) /\ Truthy(overrides[hash])
        THEN OverrideEntry(index, item, hash, overrides[hash], config)
        ELSE ClassifiedEntry(index, item, hash, classification, text, pdfMetrics)

PositionOf(entry) ==
    CHOOSE i \in DOMAIN captured.items :
        captured.items[i].relativePath = entry.relativePath

CompiledNow == compileScheduleConfig(ScheduleConfigOf(scheduleConfig))

\* C30: a run works with the configuration, the scan thresholds and the
\* override map in force when it started.  Starting a run captures the three;
\* while the run is in flight the captured values stay as they are and the
\* entries already produced are only added to; a step that saves or resets
\* the rules, changes a threshold or sets or clears an override while the run
\* is in flight changes no entry and no worker; every entry the run gave for
\* a document that did not fail and is the first of its digest is the one the
\* captured values give; and the run publishes the entries it produced.
C30_RunUsesSettingsAtStart ==
    /\ [](isProcessing =>
            \A k \in DOMAIN processed :
                (/\ failure[PositionOf(processed[k])] = "none"
                 /\ processed[k].decision # "duplicate")
                => processed[k] = EntryUnder(PositionOf(processed[k]), captured.config,
                                             captured.overrides, captured.thresholds))
    /\ [][(~isProcessing /\ isProcessing') =>
            /\ captured'.config = CompiledNow
            /\ captured'.overrides = reviewOverrides
            /\ captured'.thresholds = scanThresholds]_vars
    /\ [][(isProcessing /\ isProcessing') =>
            /\ captured' = captured
            /\ Len(processed') >= Len(processed)
            /\ \A k \in DOMAIN processed : processed'[k] = processed[k]]_vars
    /\ [][(isProcessing /\ (\/ scheduleConfig' # scheduleConfig
                             \/ scanThresholds' # scanThresholds
                             \/ reviewOverrides' # reviewOverrides)) =>
            /\ isProcessing'
            /\ processed' = processed
            /\ seenHashes' = seenHashes
            /\ pc' = pc]_vars
    /\ [][(isProcessing /\ ~isProcessing') =>
            processedFiles' = assignOutputPaths(processed)]_vars

\* Every document of a run is done, and since the run started the rules were
\* changed, a threshold was changed and an override was set for the digest
\* of one of its documents: that document's entry is the one the values at
\* the start give, which is not the one the configuration now in force
\* gives, nor the one the override map now in force gives.
C30_Witness ==
    /\ isProcessing
    /\ resolved
    /\ scanThresholds # captured.thresholds
    /\ \E k \in DOMAIN processed :
          LET i == PositionOf(processed[k])
          IN  /\ failure[i] = "none"
              /\ processed[k].decision # "duplicate"
              /\ processed[k].overrideApplied = UNDEF
              /\ MapHas(reviewOverrides, processed[k].hash)
              /\ ~MapHas(captured.overrides, processed[k].hash)
              /\ processed[k] = EntryUnder(i, captured.config, captured.overrides,
                                           captured.thresholds)
              /\ processed[k] # EntryUnder(i, CompiledNow, captured.overrides,
                                           captured.thresholds)
              /\ processed[k] # EntryUnder(i, captured.config, reviewOverrides,
                                           captured.thresholds)

(***************************************************************************)
(* Properties of assignOutputPaths called on its own (PathSpec).           *)
(***************************************************************************)
\* The folder and the filename of a path: what stands before and after its
\* last slash.
DirOf(path) == SubSeq(path, 1, lastIndexOf(path, "/") - 1)
NameOf(path) == SliceFrom(path, lastIndexOf(path, "/") + 1)

\* The filename with the suffix of counter n before its last dot.
Suffixed(name, n) ==
    SubSeq(name, 1, lastIndexOf(name, ".") - 1) \o S_dup \o NatToStr(n)
    \o SliceFrom(name, lastIndexOf(name, "."))

\* The folder and filename entry i maps to.
PlainPath(i) == buildBaseOutputPath(argFiles[i])

\* The names the earlier entries of the pass were given in the folder of
\* entry i.
UsedBefore(i) ==
    {NameOf(returned.value[j].outputPath) :
       j \in {k \in 1..(i - 1) :
                DirOf(returned.value[k].outputPath) = DirOf(PlainPath(i))}}

FirstToMap(i) == \A j \in 1..(i - 1) : PlainPath(j) # PlainPath(i)

SmallestFree(i, n) ==
    /\ NameOf(returned.value[i].outputPath) = Suffixed(NameOf(PlainPath(i)), n)
    /\ Suffixed(NameOf(PlainPath(i)), n) \notin UsedBefore(i)
    /\ \A m \in 1..(n - 1) : Suffixed(NameOf(PlainPath(i)), m) \in UsedBefore(i)

\* C31 as stated: the first entry, in list order, that maps to a folder and
\* filename keeps the plain filename, and a later entry whose name is already
\* used in the folder gets the suffix of the smallest free counter before
\* the last dot.
C31_Original ==
    returned.called =>
        \A i \in DOMAIN argFiles :
            /\ FirstToMap(i) => returned.value[i].outputPath = PlainPath(i)
            /\ (~FirstToMap(i) /\ NameOf(PlainPath(i)) \in UsedBefore(i)) =>
                   \E n \in 1..Len(argFiles) : SmallestFree(i, n)

\* C31: within one assignment pass every entry stays in the folder it maps
\* to; an entry whose filename no earlier entry was given in that folder,
\* plain or suffixed, keeps the plain filename; any other entry gets
\* base__dup<N>ext, split at the last dot of the filename, with N the
\* smallest integer from 1 whose name no earlier entry was given there.
C31_SmallestFreeSuffix ==
    returned.called =>
        /\ Len(returned.value) = Len(argFiles)
        /\ \A i \in DOMAIN argFiles :
               /\ DirOf(returned.value[i].outputPath) = DirOf(PlainPath(i))
               /\ IF NameOf(PlainPath(i)) \notin UsedBefore(i)
                  THEN returned.value[i].outputPath = PlainPath(i)
                  ELSE \E n \in 1..Len(argFiles) : SmallestFree(i, n)

\* Three entries of one folder and one name got the plain name and the
\* counters 1 and 2, and the first entry named as counter 1 gives was
\* suffixed in its turn.
C31_Witness ==
    /\ returned.called
    /\ \E i \in DOMAIN argFiles :
          /\ NameOf(PlainPath(i)) = Name_a_p
          /\ NameOf(returned.value[i].outputPath) = Name_a_dup2_p
    /\ \E i \in DOMAIN argFiles :
          /\ FirstToMap(i)
          /\ NameOf(PlainPath(i)) = Name_a_dup1_p
          /\ NameOf(returned.value[i].outputPath) = Suffixed(Name_a_dup1_p, 1)

(***************************************************************************)
(* Properties of buildReviewClusters called on its own (ClusterSpec).      *)
(***************************************************************************)
\* The clusters after the first i files: the value returned, for all of them.
ClustersAfter(i) ==
    IF i = Len(argFiles) THEN returned.value
    ELSE buildReviewClusters(SubSeq(argFiles, 1, i))

\* The distinct tokens file i shares with the tokens accumulated by cluster
\* c when the file's turn comes.
SharedTokens(i, c) ==
    Range(TokensOf(argFiles[i])) \cap Range(ClustersAfter(i - 1)[c].tokens)

SufficientFor(i) ==
    {c \in DOMAIN ClustersAfter(i - 1) : Cardinality(SharedTokens(i, c)) >= 2}

ClusterOf(i) ==
    {c \in DOMAIN ClustersAfter(i) :
        \E k \in DOMAIN ClustersAfter(i)[c].items :
            ClustersAfter(i)[c].items[k] = argFiles[i]}

\* C32: a file with at least one eligible token joins the first cluster, in
\* creation order, whose accumulated tokens hold at least 2 distinct tokens
\* of the file, and starts a new cluster when there is none; it never joins
\* a cluster with which it shares fewer than 2 distinct tokens.
C32_JoinsOnTwoDistinctTokens ==
    returned.called =>
        \A i \in DOMAIN argFiles :
            Len(TokensOf(argFiles[i])) > 0 =>
                IF SufficientFor(i) = {}
                THEN /\ Len(ClustersAfter(i)) = Len(ClustersAfter(i - 1)) + 1
                     /\ ClusterOf(i) = {Len(ClustersAfter(i))}
                ELSE /\ Len(ClustersAfter(i)) = Len(ClustersAfter(i - 1))
                     /\ \E c \in SufficientFor(i) :
                           /\ ClusterOf(i) = {c}
                           /\ \A other \in SufficientFor(i) : c <= other

\* The positions of the files that are items of cluster c.
MembersOf(c) ==
    {i \in DOMAIN argFiles :
        \E k \in DOMAIN returned.value[c].items :
            returned.value[c].items[k] = argFiles[i]}

\* C33: buildReviewClusters partitions its input: every file is an item of
\* exactly one cluster and there once, every item of a cluster is a file of
\* the input, no cluster is empty, a file without eligible token is the only
\* item of its cluster, and no cluster lists more than 12 tokens.
C33_ClustersPartition ==
    returned.called =>
        /\ \A i \in DOMAIN argFiles :
               /\ Cardinality({c \in DOMAIN returned.value : i \in MembersOf(c)}) = 1
               /\ Len(TokensOf(argFiles[i])) = 0 =>
                      \E c \in DOMAIN returned.value :
                          returned.value[c].items = <<argFiles[i]>>
        /\ \A c \in DOMAIN returned.value :
               /\ Len(returned.value[c].items) > 0
               /\ Len(returned.value[c].items) = Cardinality(MembersOf(c))
               /\ Len(returned.value[c].tokens) <= maxTokens

\* Three files, one without eligible token alone in its cluster, the two
\* others joined in a cluster whose tokens, thirteen between them, were cut
\* to twelve.
C33_Witness ==
    /\ returned.called
    /\ Len(argFiles) = 3
    /\ Len(returned.value) = 2
    /\ \E c \in DOMAIN returned.value :
          /\ Len(returned.value[c].items) = 2
          /\ Len(returned.value[c].tokens) = maxTokens
          /\ \E i \in MembersOf(c) :
                Range(TokensOf(argFiles[i])) \ Range(returned.value[c].tokens) # {}
    /\ \E c \in DOMAIN returned.value :
          /\ returned.value[c].tokens = <<>>
          /\ Len(returned.value[c].items) = 1

(***************************************************************************)
(* Properties of runWithConcurrency with workers that settle (PoolSpec).   *)
(***************************************************************************)
\* C34: for every concurrency limit from 1 and every list, the empty one
\* included, a call of runWithConcurrency whose started workers all settle
\* resolves in the end, cancelled or not; when it was not cancelled it is
\* resolved only with every document of the list started and finished.
C34_PoolResolves ==
    /\ isProcessing ~> resolved
    /\ [](resolved => active = 0)
    /\ []((resolved /\ ~aborted) =>
             /\ currentIndex = Len(captured.items)
             /\ \A i \in DOMAIN captured.items : pc[i] = "done")

\* A call on three documents with two workers was cancelled and resolved
\* with a document never started; every started worker has settled.
C34_Witness ==
    /\ resolved
    /\ aborted
    /\ Len(captured.items) = 3
    /\ captured.concurrency = 2
    /\ active = 0
    /\ \E i \in DOMAIN pc : pc[i] = "queued"
    /\ \E i \in DOMAIN pc : pc[i] = "done"

(***************************************************************************)
(* Properties of the overrides across runs (LiveSpec, Spec).               *)
(***************************************************************************)
\* C35: whenever no run is in progress, every entry of the published list
\* that is not a duplicate and whose digest is a key of the override map is
\* assigned to the category the map gives, whatever the interleaving of run
\* starts, override changes and run completions.
C35_PublishedFollowsOverrides ==
    ~isProcessing =>
        \A k \in DOMAIN processedFiles :
            (/\ processedFiles[k].decision # "duplicate"
             /\ MapHas(reviewOverrides, processedFiles[k].hash))
            => /\ processedFiles[k].decision = "assigned"
               /\ processedFiles[k].schedule = reviewOverrides[processedFiles[k].hash]

\* The first entry of the list with the digest of entry k.
FirstOfDigest(k) ==
    CHOOSE j \in DOMAIN processedFiles :
        /\ processedFiles[j].hash = processedFiles[k].hash
        /\ \A i \in DOMAIN processedFiles :
               processedFiles[i].hash = processedFiles[k].hash => j <= i

\* The decision and the category a run over the documents of the list, in
\* the order of the list, gives entry k under the override map after the
\* step: a later document of a digest is a duplicate of the first, the first
\* document of a digest of the map is assigned to the mapped category, and
\* any other document is classified as it was.
RerunFirst(k) ==
    IF MapHas(reviewOverrides', processedFiles[k].hash)
       /\ Truthy(reviewOverrides'[processedFiles[k].hash])
    THEN [decision |-> "assigned",
          schedule |-> reviewOverrides'[processedFiles[k].hash]]
    ELSE [decision |-> processedFiles[k].decision,
          schedule |-> processedFiles[k].schedule]

Rerun(k) ==
    IF FirstOfDigest(k) = k THEN RerunFirst(k)
    ELSE [decision |-> "duplicate", schedule |-> RerunFirst(FirstOfDigest(k)).schedule]

\* C36: setting an override on the published list gives every entry whose
\* document was read the decision and the category that a run from scratch
\* over the same documents in the same order gives with that override in the
\* override map.
C36_OverrideAsRerun ==
    [][(~isProcessing /\ ~isProcessing' /\ OverrideSet # {}) =>
          \A k \in DOMAIN processedFiles :
              processedFiles[k].reason # Reason("processing_error") =>
                  /\ processedFiles'[k].decision = Rerun(k).decision
                  /\ processedFiles'[k].schedule = Rerun(k).schedule]_vars

(***************************************************************************)
(* buildDuplicatesGroups (scheduleConfig.ts 351-376).                      *)
(***************************************************************************)
\* The keys of the Map of groups, in insertion order: the digests of the
\* files in the order of their first occurrence.
RECURSIVE GroupKeys(_)
GroupKeys(files) ==
    IF files = <<>> THEN <<>>
    ELSE LET before == GroupKeys(SubSeq(files, 1, Len(files) - 1))
             hash == files[Len(files)].hash
         IN  IF \E i \in DOMAIN before : before[i] = hash
             THEN before
             ELSE Append(before, hash)

\* groups.get(hash): the files of the digest, in the order of the list.
GroupFiles(files, hash) == SelectSeq(files, LAMBDA file : file.hash = hash)

DuplicateGroup(hash, groupFiles) ==
    LET sorted == SortByRelativePath(groupFiles)
        kept == sorted[1]
    IN  [hash |-> hash,
         hashPrefix |-> kept.hashPrefix,
         count |-> Len(sorted),
         sourcePaths |-> [i \in DOMAIN sorted |-> sorted[i].relativePath],
         keptName |-> kept.name,
         duplicateNames |-> [i \in 1..(Len(sorted) - 1) |-> sorted[i + 1].name]]

RECURSIVE GroupsOf(_, _)
GroupsOf(files, keys) ==
    IF keys = <<>> THEN <<>>
    ELSE LET groupFiles == GroupFiles(files, Head(keys))
         IN  (IF Len(groupFiles) < 2 THEN <<>>
              ELSE <<DuplicateGroup(Head(keys), groupFiles)>>)
             \o GroupsOf(files, Tail(keys))

buildDuplicatesGroups(files) == GroupsOf(files, GroupKeys(files))

\* The memo of the component: the groups of the published list.
duplicateGroups == buildDuplicatesGroups(processedFiles)

\* The names of the entries of a digest whose decision is, or is not, duplicate.
NamesOfDecision(hash, isDuplicate) ==
    {processedFiles[i].name : i \in
        {k \in DOMAIN processedFiles :
            /\ processedFiles[k].hash = hash
            /\ (processedFiles[k].decision = "duplicate") = isDuplicate}}

\* C37: after a run every group of duplicates lists its source paths in
\* ascending order, its kept name is the name of the one entry of the digest
\* whose decision is not duplicate, and its duplicate names are exactly the
\* names of the entries of the digest marked duplicate.
C37_GroupsFollowDecisions ==
    Published =>
        \A g \in DOMAIN duplicateGroups :
            LET group == duplicateGroups[g]
            IN  /\ \A i, j \in DOMAIN group.sourcePaths :
                       i < j => ~localeCompareLess(group.sourcePaths[j], group.sourcePaths[i])
                /\ NamesOfDecision(group.hash, FALSE) = {group.keptName}
                /\ NamesOfDecision(group.hash, TRUE) =
                       {group.duplicateNames[i] : i \in DOMAIN group.duplicateNames}

====
